----------------------------- MODULE FieldValues -----------------------------
(***************************************************************************)
(* The values of __MysqlField and __Sqlite3Field objects: the union of a   *)
(* number and a pointer to a string of the field's own, what LoadFromStr   *)
(* makes of a column's text, and what a database takes the literal for     *)
(* that ToSqlStr writes of the value.  Columns BOOL, INT and DATETIME are  *)
(* alike ("int"), so are VARCHAR and TEXT ("text"); NULL and BLOB columns, *)
(* which no table has, are left out.  The program hands LoadFromStr, also  *)
(* as operator=, strings of its own, never a field's.                      *)
(*                                                                         *)
(* A text is the number at its beginning, in hundredths, whether more      *)
(* follows, and what it has that matters between quotes.  Widths are       *)
(* scaled: MaxInt, MaxLong and the range of a double are small, and        *)
(* to_string writes one decimal of a double, not six.                      *)
(***************************************************************************)
EXTENDS Integers

CONSTANTS
    FieldObjects,   \* field objects
    Addresses,      \* where strings may be allocated
    Texts,          \* what is loaded
    NoNumber,       \* in a text that does not begin with one
    NoField,        \* no object is there
    MaxInt,
    MaxLong,
    MaxDouble,      \* greatest double, in hundredths
    MinDouble       \* the least above zero

\* A text has a quote, a backslash or nothing of these, or is a column's name.
Contents == {"nothing", "quote", "backslash", "column"}

EmptyText == [number |-> NoNumber, more |-> FALSE, has |-> "nothing"]

ASSUME TextsAssumption ==
    /\ EmptyText \in Texts
    /\ Texts \subseteq [number : Int \cup {NoNumber}, more : BOOLEAN, has : Contents]

ASSUME WidthsAssumption ==
    /\ MaxInt \in Nat /\ MaxLong \in Nat /\ MaxInt <= MaxLong
    /\ MaxDouble \in Nat /\ MinDouble \in Nat /\ MinDouble <= MaxDouble

Dbs == {"mysql", "sqlite3"}

Types == {"int", "real", "text"}

\* What a field may be: a string's pointer or a number, in a union.
StringFields == [db : Dbs, type : {"text"}, value : Addresses]

NumberFields == [db : Dbs, type : {"int", "real"}, value : Int]

ASSUME NoFieldAssumption == NoField \notin StringFields \cup NumberFields

VARIABLES
    field,      \* of each object: its client, type and union
    heap,       \* the strings that are allocated
    loaded      \* history: what LoadFromStr last put into each object

field_vars == <<field, heap, loaded>>

Exists(o) == field[o] # NoField

HasString(x) == x.type = "text"
-----------------------------------------------------------------------------
FieldInit ==
    /\ field = [o \in FieldObjects |-> NoField]
    /\ heap = [a \in {} |-> EmptyText]
    /\ loaded = [o \in FieldObjects |-> EmptyText]

\* The strings without that at address v, and with text s at address a.
WithoutString(h, v) == [a \in DOMAIN h \ {v} |-> h[a]]

WithString(h, a, s) == [b \in DOMAIN h \cup {a} |-> IF b = a THEN s ELSE h[b]]

Construct(o, db, type) ==
    /\ ~Exists(o)
    /\ \/ /\ type = "text"
          /\ \E a \in Addresses \ DOMAIN heap :
               /\ heap' = WithString(heap, a, EmptyText)
               /\ field' = [field EXCEPT ![o] = [db |-> db, type |-> type, value |-> a]]
       \/ /\ type # "text"
          /\ field' = [field EXCEPT ![o] = [db |-> db, type |-> type, value |-> 0]]
          /\ UNCHANGED heap
    /\ loaded' = [loaded EXCEPT ![o] = EmptyText]

\* Mutant: the base class's destructor is not virtual.
DestructBase(o) ==
    /\ Exists(o)
    /\ field' = [field EXCEPT ![o] = NoField]
    /\ UNCHANGED <<heap, loaded>>

Destruct(o) ==
    /\ Exists(o)
    /\ field' = [field EXCEPT ![o] = NoField]
    /\ heap' = IF HasString(field[o]) THEN WithoutString(heap, field[o].value) ELSE heap
    /\ UNCHANGED loaded

\* Mutant: the copy constructor is the implicit one.
CopyShares(o, p) ==
    /\ ~Exists(o) /\ Exists(p)
    /\ field' = [field EXCEPT ![o] = field[p]]
    /\ loaded' = [loaded EXCEPT ![o] = loaded[p]]
    /\ UNCHANGED heap

\* Copy of p, and the copy constructor.
CopyField(o, p) ==
    /\ ~Exists(o) /\ Exists(p)
    /\ \/ /\ ~HasString(field[p])
          /\ field' = [field EXCEPT ![o] = field[p]]
          /\ UNCHANGED heap
       \/ /\ HasString(field[p])
          /\ \E a \in Addresses \ DOMAIN heap :
               /\ heap' = WithString(heap, a, heap[field[p].value])
               /\ field' = [field EXCEPT ![o] = [field[p] EXCEPT !.value = a]]
    /\ loaded' = [loaded EXCEPT ![o] = loaded[p]]
-----------------------------------------------------------------------------
(***************************************************************************)
(* Numbers: stoll, whose out_of_range is caught and makes -1, and stoi and *)
(* stod, which throw it on.  A text without a number throws                *)
(* invalid_argument from all three.                                        *)
(***************************************************************************)
Abs(n) == IF n < 0 THEN -n ELSE n

WithSign(n, m) == IF n < 0 THEN -m ELSE m

\* What stoi and stoll read of a number.
Whole(n) == WithSign(n, Abs(n) \div 100)

Ints == -MaxInt - 1 .. MaxInt

Longs == -MaxLong - 1 .. MaxLong

Doubles == {n \in Int : n = 0 \/ (MinDouble <= Abs(n) /\ Abs(n) <= MaxDouble)}

Throws(x, s) ==
    \/ s.number = NoNumber
    \/ x.db = "sqlite3" /\ x.type = "int" /\ Whole(s.number) \notin Ints
    \/ x.type = "real" /\ s.number \notin Doubles

Converted(x, s) ==
    IF x.type = "real" THEN s.number
    ELSE IF Whole(s.number) \in Longs THEN Whole(s.number) ELSE -1

\* Mutant: every exception is caught and leaves -1.
LoadNumberCaught(o, s) ==
    /\ ~HasString(field[o])
    /\ IF Throws(field[o], s)
       THEN field' = [field EXCEPT ![o].value = -1] /\ UNCHANGED loaded
       ELSE /\ field' = [field EXCEPT ![o].value = Converted(field[o], s)]
            /\ loaded' = [loaded EXCEPT ![o] = s]
    /\ UNCHANGED heap

\* LoadFromStr of a number, which keeps its value if the conversion throws.
LoadNumber(o, s) ==
    /\ ~HasString(field[o])
    /\ IF Throws(field[o], s) THEN UNCHANGED <<field, loaded>>
       ELSE /\ field' = [field EXCEPT ![o].value = Converted(field[o], s)]
            /\ loaded' = [loaded EXCEPT ![o] = s]
    /\ UNCHANGED heap

\* LoadFromStr of a text: delete, then new, which may give the same address.
LoadText(o, s) ==
    /\ HasString(field[o])
    /\ LET rest == WithoutString(heap, field[o].value) IN
       \E a \in Addresses \ DOMAIN rest :
         /\ heap' = WithString(rest, a, s)
         /\ field' = [field EXCEPT ![o].value = a]
    /\ loaded' = [loaded EXCEPT ![o] = s]

LoadField(o, s) == Exists(o) /\ (LoadNumber(o, s) \/ LoadText(o, s))

FieldNext ==
    \E o \in FieldObjects :
      \/ \E db \in Dbs, type \in Types : Construct(o, db, type)
      \/ Destruct(o)
      \/ \E s \in Texts : LoadField(o, s)
      \/ \E p \in FieldObjects : CopyField(o, p)

FieldSpec == FieldInit /\ [][FieldNext]_field_vars
-----------------------------------------------------------------------------
(***************************************************************************)
(* Literals.  A text is put between double quotes as it is.                *)
(***************************************************************************)
Decimals == 10      \* hundredths in what to_string can write

\* To the nearest that can be written, and of two to the even one.
Round(n) ==
    LET q == Abs(n) \div Decimals
        r == 2 * (Abs(n) % Decimals)
        up == r > Decimals \/ (r = Decimals /\ q % 2 = 1)
    IN  WithSign(n, Decimals * (IF up THEN q + 1 ELSE q))

NumberText(n) == [number |-> n, more |-> FALSE, has |-> "nothing"]

ToSqlStr(x) ==
    IF HasString(x) THEN [quoted |-> TRUE, text |-> heap[x.value]]
    ELSE [quoted |-> FALSE,
          text   |-> NumberText(IF x.type = "int" THEN 100 * x.value ELSE Round(x.value))]

\* A quote ends the literal; MySQL reads a backslash as an escape, and SQLite
\* a column's name in double quotes as the column.
Misread(db) == {"quote"} \cup (IF db = "mysql" THEN {"backslash"} ELSE {"column"})

\* The values for which the database takes a literal: if it is misread, none
\* that the field knows of.
TakenAs(db, lit) ==
    IF lit.quoted /\ lit.text.has \in Misread(db) THEN {} ELSE {lit.text}

-----------------------------------------------------------------------------
\* Each text field has a string that is there and is no other field's, after
\* any copies, loads and ends of others: it can be written, copied, loaded and
\* destroyed (the constructors, the destructor and LoadFromStr of both field
\* classes).
OwnString ==
    \A o \in FieldObjects : Exists(o) /\ HasString(field[o]) =>
        /\ field[o].value \in DOMAIN heap
        /\ \A p \in FieldObjects \ {o} :
             Exists(p) /\ HasString(field[p]) => field[p].value # field[o].value

\* Every string has a field that will delete it, also those that LoadFromStr
\* replaced.
NoneLost ==
    \A a \in DOMAIN heap :
        \E o \in FieldObjects : Exists(o) /\ HasString(field[o]) /\ field[o].value = a

\* What a column loses when what was read is written back: a text that is
\* misread, all; a number, what follows it (of a DATETIME all but its year),
\* an int its decimals and, beyond a long long at either end, its value, and a
\* double its later decimals.
Inexact(x, s) ==
    \/ x.type = "text" /\ s.has \in Misread(x.db)
    \/ x.type # "text" /\ (s.more \/ s.has # "nothing")
    \/ x.type = "int" /\ (100 * Whole(s.number) # s.number \/ Whole(s.number) \notin Longs)
    \/ x.type = "real" /\ Round(s.number) # s.number

\* The database takes what a field writes for what it was last loaded with,
\* also in its copies and after loads that threw, but for what Inexact names.
WrittenAsLoaded ==
    \A o \in FieldObjects : Exists(o) /\ loaded[o] # EmptyText =>
        \/ Inexact(field[o], loaded[o])
        \/ TakenAs(field[o].db, ToSqlStr(field[o])) = {loaded[o]}
=============================================================================
