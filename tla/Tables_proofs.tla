---------------------------- MODULE Tables_proofs ----------------------------
(***************************************************************************)
(* Proofs about database_client.h: about FieldValues, that the strings of  *)
(* the fields are each one field's, none is lost, and the database takes   *)
(* what a field writes for what it loaded; about SqlTable, its type        *)
(* invariant, what Modify may do to rows, and that values keep their       *)
(* fields.                                                                 *)
(***************************************************************************)
EXTENDS FieldValues, SqlTable, TLAPS

(***************************************************************************)
(* FieldValues.  The parts of the inductive invariant, of fields f, strings *)
(* h and what was loaded ld.                                               *)
(***************************************************************************)
IsString(f, o) == f[o] # NoField /\ HasString(f[o])

FieldTypes(f, h, ld) ==
    /\ f \in [FieldObjects -> {NoField} \cup StringFields \cup NumberFields]
    /\ DOMAIN h \subseteq Addresses
    /\ h = [a \in DOMAIN h |-> h[a]] /\ \A a \in DOMAIN h : h[a] \in Texts
    /\ ld \in [FieldObjects -> Texts]

\* A field has a string to itself.
Owns(f, h) ==
    \A o \in FieldObjects : IsString(f, o) =>
        /\ f[o].value \in DOMAIN h
        /\ \A p \in FieldObjects \ {o} : IsString(f, p) => f[p].value # f[o].value

\* Every string has a field.
Owned(f, h) ==
    \A a \in DOMAIN h : \E o \in FieldObjects : IsString(f, o) /\ f[o].value = a

\* A number or text that was last loaded is what the field has.
Holds(x, h, s) ==
    IF HasString(x) THEN h[x.value] = s
    ELSE s = EmptyText \/ (s.number \in Int /\ x.value = Converted(x, s))

HoldsLoaded(f, h, ld) == \A o \in FieldObjects : f[o] # NoField => Holds(f[o], h, ld[o])

Consistent(f, h, ld) ==
    FieldTypes(f, h, ld) /\ Owns(f, h) /\ Owned(f, h) /\ HoldsLoaded(f, h, ld)

\* The inductive invariant.
FieldIInv == Consistent(field, heap, loaded)

LEMMA StringFieldIs ==
    \A x \in StringFields :
      /\ HasString(x) /\ x # NoField /\ x.value \in Addresses
      /\ \A a \in Addresses :
           LET y == [x EXCEPT !.value = a]
           IN  y \in StringFields /\ y.value = a /\ y.type = x.type /\ y.db = x.db
BY NoFieldAssumption DEF StringFields, HasString

LEMMA NumberFieldIs ==
    \A x \in NumberFields :
      /\ ~HasString(x) /\ x # NoField /\ x.value \in Int
      /\ \A n \in Int :
           LET y == [x EXCEPT !.value = n]
           IN  y \in NumberFields /\ y.value = n /\ y.type = x.type /\ y.db = x.db
BY NoFieldAssumption DEF NumberFields, HasString

LEMMA FieldIs ==
    ASSUME NEW f \in [FieldObjects -> {NoField} \cup StringFields \cup NumberFields],
           NEW o \in FieldObjects
    PROVE  /\ f[o] # NoField <=> f[o] \in StringFields \cup NumberFields
           /\ IsString(f, o) <=> f[o] \in StringFields
           /\ f[o] # NoField /\ ~HasString(f[o]) <=> f[o] \in NumberFields
BY StringFieldIs, NumberFieldIs, NoFieldAssumption DEF IsString

\* A field with a string is destroyed: the other fields have theirs.
LEMMA DestroyString ==
    ASSUME NEW f, NEW h, NEW ld, Consistent(f, h, ld), NEW o \in FieldObjects, IsString(f, o)
    PROVE  Consistent([f EXCEPT ![o] = NoField], WithoutString(h, f[o].value), ld)
<1> DEFINE v == f[o].value
           g == [f EXCEPT ![o] = NoField]
           i == WithoutString(h, v)
<1>1. /\ f \in [FieldObjects -> {NoField} \cup StringFields \cup NumberFields]
      /\ DOMAIN h \subseteq Addresses /\ \A a \in DOMAIN h : h[a] \in Texts
      /\ ld \in [FieldObjects -> Texts]
  BY DEF Consistent, FieldTypes
<1>2. /\ DOMAIN i = DOMAIN h \ {v} /\ \A a \in DOMAIN i : i[a] = h[a]
      /\ i = [a \in DOMAIN i |-> i[a]]
  BY DEF WithoutString
<1>3. /\ g \in [FieldObjects -> {NoField} \cup StringFields \cup NumberFields]
      /\ g[o] = NoField /\ \A p \in FieldObjects \ {o} : g[p] = f[p]
  BY <1>1
<1>4. \A p \in FieldObjects : IsString(g, p) => p # o /\ IsString(f, p) /\ f[p].value # v
  BY <1>3 DEF IsString, Consistent, Owns
<1>5. \A p \in FieldObjects : g[p] # NoField => p # o /\ g[p] = f[p]
  BY <1>3
<1> HIDE DEF g, i
<1>6. FieldTypes(g, i, ld)
  BY <1>1, <1>2, <1>3 DEF FieldTypes
<1>7. Owns(g, i)
  BY <1>2, <1>3, <1>4 DEF Consistent, Owns
<1>8. Owned(g, i)
  <2> SUFFICES ASSUME NEW a \in DOMAIN i
               PROVE  \E p \in FieldObjects : IsString(g, p) /\ g[p].value = a
    BY DEF Owned
  <2>1. a \in DOMAIN h /\ a # v
    BY <1>2
  <2>2. PICK p \in FieldObjects : IsString(f, p) /\ f[p].value = a
    BY <2>1 DEF Consistent, Owned
  <2> QED BY <1>3, <2>1, <2>2 DEF IsString
<1>9. HoldsLoaded(g, i, ld)
  <2> SUFFICES ASSUME NEW p \in FieldObjects, g[p] # NoField PROVE Holds(g[p], i, ld[p])
    BY DEF HoldsLoaded
  <2>1. p # o /\ g[p] = f[p] /\ Holds(f[p], h, ld[p])
    BY <1>5 DEF Consistent, HoldsLoaded
  <2>2. HasString(f[p]) => i[f[p].value] = h[f[p].value]
    BY <1>2, <1>4, <2>1 DEF IsString, Consistent, Owns
  <2> QED BY <2>1, <2>2 DEF Holds
<1> QED BY <1>6, <1>7, <1>8, <1>9 DEF Consistent, g, i

\* A field is made with a new string.
LEMMA MakeString ==
    ASSUME NEW f, NEW h, NEW ld, Consistent(f, h, ld),
           NEW o \in FieldObjects, f[o] = NoField,
           NEW a \in Addresses \ DOMAIN h, NEW s \in Texts,
           NEW x \in StringFields, x.value = a
    PROVE  Consistent([f EXCEPT ![o] = x], WithString(h, a, s), [ld EXCEPT ![o] = s])
<1> DEFINE g == [f EXCEPT ![o] = x]
           i == WithString(h, a, s)
           l == [ld EXCEPT ![o] = s]
<1>1. /\ f \in [FieldObjects -> {NoField} \cup StringFields \cup NumberFields]
      /\ DOMAIN h \subseteq Addresses /\ \A b \in DOMAIN h : h[b] \in Texts
      /\ ld \in [FieldObjects -> Texts]
  BY DEF Consistent, FieldTypes
<1>2. /\ DOMAIN i = DOMAIN h \cup {a} /\ i = [b \in DOMAIN i |-> i[b]]
      /\ i[a] = s /\ \A b \in DOMAIN h : i[b] = h[b]
  BY DEF WithString
<1>3. /\ g \in [FieldObjects -> {NoField} \cup StringFields \cup NumberFields]
      /\ g[o] = x /\ \A p \in FieldObjects \ {o} : g[p] = f[p]
  BY <1>1
<1>4. /\ l \in [FieldObjects -> Texts]
      /\ l[o] = s /\ \A p \in FieldObjects \ {o} : l[p] = ld[p]
  BY <1>1
<1>5. IsString(g, o) /\ \A p \in FieldObjects \ {o} : IsString(g, p) <=> IsString(f, p)
  BY <1>3, StringFieldIs DEF IsString
<1>6. \A p \in FieldObjects : IsString(f, p) => f[p].value # a
  BY DEF Consistent, Owns
<1> HIDE DEF g, i, l
<1>7. FieldTypes(g, i, l)
  BY <1>1, <1>2, <1>3, <1>4 DEF FieldTypes
<1>8. Owns(g, i)
  BY <1>2, <1>3, <1>5, <1>6 DEF Consistent, Owns
<1>9. Owned(g, i)
  <2> SUFFICES ASSUME NEW b \in DOMAIN i
               PROVE  \E p \in FieldObjects : IsString(g, p) /\ g[p].value = b
    BY DEF Owned
  <2>1. CASE b = a
    BY <1>3, <1>5, <2>1
  <2>2. CASE b # a
    <3>1. PICK p \in FieldObjects : IsString(f, p) /\ f[p].value = b
      BY <1>2, <2>2 DEF Consistent, Owned
    <3>2. p # o
      BY <3>1 DEF IsString
    <3> QED BY <1>3, <1>5, <3>1, <3>2
  <2> QED BY <2>1, <2>2
<1>10. HoldsLoaded(g, i, l)
  <2> SUFFICES ASSUME NEW p \in FieldObjects, g[p] # NoField PROVE Holds(g[p], i, l[p])
    BY DEF HoldsLoaded
  <2>1. CASE p = o
    BY <1>2, <1>3, <1>4, <1>5, <2>1 DEF Holds, IsString
  <2>2. CASE p # o
    <3>1. g[p] = f[p] /\ l[p] = ld[p] /\ Holds(f[p], h, ld[p])
      BY <1>3, <1>4, <2>2 DEF Consistent, HoldsLoaded
    <3>2. HasString(f[p]) => i[f[p].value] = h[f[p].value]
      BY <1>2, <1>3, <2>2 DEF Consistent, Owns, IsString
    <3> QED BY <3>1, <3>2 DEF Holds
  <2> QED BY <2>1, <2>2
<1> QED BY <1>7, <1>8, <1>9, <1>10 DEF Consistent, g, i, l

\* A field gets a number, or a new one is made with it.
LEMMA MakeNumber ==
    ASSUME NEW f, NEW h, NEW ld, Consistent(f, h, ld),
           NEW o \in FieldObjects, ~IsString(f, o),
           NEW x \in NumberFields, NEW s \in Texts, Holds(x, h, s)
    PROVE  Consistent([f EXCEPT ![o] = x], h, [ld EXCEPT ![o] = s])
<1> DEFINE g == [f EXCEPT ![o] = x]
           l == [ld EXCEPT ![o] = s]
<1>1. /\ f \in [FieldObjects -> {NoField} \cup StringFields \cup NumberFields]
      /\ ld \in [FieldObjects -> Texts]
  BY DEF Consistent, FieldTypes
<1>2. /\ g \in [FieldObjects -> {NoField} \cup StringFields \cup NumberFields]
      /\ g[o] = x /\ \A p \in FieldObjects \ {o} : g[p] = f[p]
  BY <1>1
<1>3. /\ l \in [FieldObjects -> Texts]
      /\ l[o] = s /\ \A p \in FieldObjects \ {o} : l[p] = ld[p]
  BY <1>1
<1>4. \A p \in FieldObjects : /\ IsString(g, p) <=> IsString(f, p)
                              /\ IsString(g, p) => g[p] = f[p]
  BY <1>2, NumberFieldIs DEF IsString
<1> HIDE DEF g, l
<1>5. FieldTypes(g, h, l)
  BY <1>2, <1>3 DEF FieldTypes, Consistent
<1>6. Owns(g, h) /\ Owned(g, h)
  BY <1>4 DEF Consistent, Owns, Owned
<1>7. HoldsLoaded(g, h, l)
  BY <1>2, <1>3 DEF Consistent, HoldsLoaded
<1> QED BY <1>5, <1>6, <1>7 DEF Consistent, g, l

\* A field with a number is destroyed.
LEMMA DestroyNumber ==
    ASSUME NEW f, NEW h, NEW ld, Consistent(f, h, ld),
           NEW o \in FieldObjects, ~IsString(f, o)
    PROVE  Consistent([f EXCEPT ![o] = NoField], h, ld)
<1> DEFINE g == [f EXCEPT ![o] = NoField]
<1>1. f \in [FieldObjects -> {NoField} \cup StringFields \cup NumberFields]
  BY DEF Consistent, FieldTypes
<1>2. /\ g \in [FieldObjects -> {NoField} \cup StringFields \cup NumberFields]
      /\ g[o] = NoField /\ \A p \in FieldObjects \ {o} : g[p] = f[p]
  BY <1>1
<1>3. \A p \in FieldObjects : /\ IsString(g, p) <=> IsString(f, p)
                              /\ g[p] # NoField => g[p] = f[p]
  BY <1>2 DEF IsString
<1> HIDE DEF g
<1>4. FieldTypes(g, h, ld)
  BY <1>2 DEF FieldTypes, Consistent
<1>5. Owns(g, h) /\ Owned(g, h)
  BY <1>3 DEF Consistent, Owns, Owned, IsString
<1>6. HoldsLoaded(g, h, ld)
  BY <1>3 DEF Consistent, HoldsLoaded
<1> QED BY <1>4, <1>5, <1>6 DEF Consistent, g
-----------------------------------------------------------------------------
LEMMA ConsistentIs == Consistent(field', heap', loaded') => FieldIInv'
BY DEF FieldIInv, Consistent, FieldTypes, Owns, Owned, HoldsLoaded, IsString

LEMMA FieldSame == FieldIInv /\ UNCHANGED field_vars => FieldIInv'
BY DEF field_vars, FieldIInv, Consistent, FieldTypes, Owns, Owned, HoldsLoaded, IsString

LEMMA FieldTyped ==
    ASSUME FieldIInv, NEW o \in FieldObjects
    PROVE  /\ Exists(o) /\ HasString(field[o]) <=> IsString(field, o)
           /\ IsString(field, o) => field[o] \in StringFields
           /\ Exists(o) /\ ~HasString(field[o]) => field[o] \in NumberFields
           /\ loaded[o] \in Texts /\ field = [p \in FieldObjects |-> field[p]]
           /\ Exists(o) => Holds(field[o], heap, loaded[o])
BY FieldIs DEF FieldIInv, Consistent, FieldTypes, HoldsLoaded, IsString, Exists

LEMMA ConstructKeeps ==
    ASSUME FieldIInv, NEW o \in FieldObjects, NEW db \in Dbs, NEW type \in Types,
           Construct(o, db, type)
    PROVE  FieldIInv'
<1>1. /\ field[o] = NoField /\ ~IsString(field, o) /\ EmptyText \in Texts
      /\ loaded' = [loaded EXCEPT ![o] = EmptyText]
  BY TextsAssumption DEF Construct, Exists, IsString
<1>2. CASE type = "text"
  <2>1. PICK a \in Addresses \ DOMAIN heap :
          /\ heap' = WithString(heap, a, EmptyText)
          /\ field' = [field EXCEPT ![o] = [db |-> db, type |-> type, value |-> a]]
    BY <1>2 DEF Construct
  <2>2. [db |-> db, type |-> type, value |-> a] \in StringFields
    BY <1>2 DEF StringFields
  <2>3. Consistent(field', heap', loaded')
    BY <1>1, <2>1, <2>2, MakeString DEF FieldIInv
  <2> QED BY <2>3, ConsistentIs
<1>3. CASE type # "text"
  <2>1. [db |-> db, type |-> type, value |-> 0] \in NumberFields
    BY <1>3 DEF NumberFields, Types
  <2>2. Holds([db |-> db, type |-> type, value |-> 0], heap, EmptyText)
    BY <1>3 DEF Holds, HasString
  <2>3. /\ field' = [field EXCEPT ![o] = [db |-> db, type |-> type, value |-> 0]]
        /\ heap' = heap
    BY <1>3 DEF Construct
  <2>4. Consistent(field', heap', loaded')
    BY <1>1, <2>1, <2>2, <2>3, MakeNumber DEF FieldIInv
  <2> QED BY <2>4, ConsistentIs
<1> QED BY <1>2, <1>3

LEMMA DestructKeeps ==
    ASSUME FieldIInv, NEW o \in FieldObjects, Destruct(o)
    PROVE  FieldIInv'
<1>1. field' = [field EXCEPT ![o] = NoField] /\ loaded' = loaded /\ Exists(o)
  BY DEF Destruct
<1>2. CASE HasString(field[o])
  <2>1. IsString(field, o) /\ heap' = WithoutString(heap, field[o].value)
    BY <1>1, <1>2 DEF Destruct, IsString, Exists
  <2> QED BY <1>1, <2>1, DestroyString, ConsistentIs DEF FieldIInv
<1>3. CASE ~HasString(field[o])
  <2>1. ~IsString(field, o) /\ heap' = heap
    BY <1>3 DEF Destruct, IsString
  <2> QED BY <1>1, <2>1, DestroyNumber, ConsistentIs DEF FieldIInv
<1> QED BY <1>2, <1>3

LEMMA CopyKeeps ==
    ASSUME FieldIInv, NEW o \in FieldObjects, NEW p \in FieldObjects, CopyField(o, p)
    PROVE  FieldIInv'
<1>1. /\ field[o] = NoField /\ ~IsString(field, o) /\ Exists(p)
      /\ loaded' = [loaded EXCEPT ![o] = loaded[p]] /\ loaded[p] \in Texts
      /\ Holds(field[p], heap, loaded[p])
  BY FieldTyped DEF CopyField, Exists, IsString
<1>2. CASE ~HasString(field[p])
  <2>1. field[p] \in NumberFields /\ field' = [field EXCEPT ![o] = field[p]] /\ heap' = heap
    BY <1>1, <1>2, FieldTyped DEF CopyField
  <2> QED BY <1>1, <2>1, MakeNumber, ConsistentIs DEF FieldIInv
<1>3. CASE HasString(field[p])
  <2>1. PICK a \in Addresses \ DOMAIN heap :
          /\ heap' = WithString(heap, a, heap[field[p].value])
          /\ field' = [field EXCEPT ![o] = [field[p] EXCEPT !.value = a]]
    BY <1>3 DEF CopyField
  <2> DEFINE x == [field[p] EXCEPT !.value = a]
  <2>2. x \in StringFields /\ x.value = a
    BY <1>1, <1>3, FieldTyped, StringFieldIs
  <2>3. heap[field[p].value] = loaded[p]
    BY <1>1, <1>3 DEF Holds
  <2> HIDE DEF x
  <2>4. field' = [field EXCEPT ![o] = x] /\ heap' = WithString(heap, a, loaded[p])
    BY <2>1, <2>3 DEF x
  <2> QED BY <1>1, <2>2, <2>4, MakeString, ConsistentIs DEF FieldIInv
<1> QED BY <1>2, <1>3

\* LoadFromStr of a text s that a field may be given.
LEMMA LoadNumberKeeps ==
    ASSUME FieldIInv, NEW o \in FieldObjects, Exists(o), NEW s \in Texts, LoadNumber(o, s)
    PROVE  FieldIInv'
<1>1. CASE Throws(field[o], s)
  BY <1>1, FieldSame DEF LoadNumber, field_vars
<1>2. CASE ~Throws(field[o], s)
  <2> DEFINE x == [field[o] EXCEPT !.value = Converted(field[o], s)]
  <2>1. /\ field[o] \in NumberFields /\ ~IsString(field, o)
        /\ field = [p \in FieldObjects |-> field[p]]
    BY FieldTyped DEF LoadNumber
  <2>2. s.number \in Int
    BY <1>2, TextsAssumption DEF Throws
  <2>3. Converted(field[o], s) \in Int
    BY <2>2 DEF Converted, Whole, WithSign, Abs
  <2>4. /\ x \in NumberFields /\ x.value = Converted(field[o], s)
        /\ x.type = field[o].type
    BY <2>1, <2>3, NumberFieldIs
  <2>5. Holds(x, heap, s)
    <3>1. Converted(x, s) = Converted(field[o], s)
      BY <2>4 DEF Converted
    <3> QED BY <2>1, <2>2, <2>4, <3>1, NumberFieldIs DEF Holds, HasString
  <2>6. /\ field' = [field EXCEPT ![o] = x]
        /\ loaded' = [loaded EXCEPT ![o] = s]
        /\ UNCHANGED heap
    BY <1>2, <2>1 DEF LoadNumber
  <2> HIDE DEF x
  <2> QED BY <2>1, <2>4, <2>5, <2>6, MakeNumber, ConsistentIs DEF FieldIInv
<1> QED BY <1>1, <1>2

LEMMA LoadTextKeeps ==
    ASSUME FieldIInv, NEW o \in FieldObjects, Exists(o), NEW s \in Texts, LoadText(o, s)
    PROVE  FieldIInv'
<1> DEFINE rest == WithoutString(heap, field[o].value)
           g == [field EXCEPT ![o] = NoField]
<1>1. IsString(field, o) /\ field[o] \in StringFields /\ field = [p \in FieldObjects |-> field[p]]
  BY FieldTyped DEF LoadText, IsString, Exists
<1>2. PICK a \in Addresses \ DOMAIN rest :
        /\ heap' = WithString(rest, a, s)
        /\ field' = [field EXCEPT ![o].value = a]
  BY DEF LoadText
<1> DEFINE x == [field[o] EXCEPT !.value = a]
<1>3. x \in StringFields /\ x.value = a
  BY <1>1, StringFieldIs
<1>4. Consistent(g, rest, loaded)
  BY <1>1, DestroyString DEF FieldIInv
<1>5. g[o] = NoField /\ field' = [g EXCEPT ![o] = x]
  BY <1>1, <1>2
<1>6. loaded' = [loaded EXCEPT ![o] = s]
  BY DEF LoadText
<1> HIDE DEF g, x, rest
<1>7. Consistent([g EXCEPT ![o] = x], WithString(rest, a, s), [loaded EXCEPT ![o] = s])
  BY <1>3, <1>4, <1>5, MakeString
<1>8. Consistent(field', heap', loaded')
  BY <1>2, <1>5, <1>6, <1>7
<1> QED BY <1>8, ConsistentIs

LEMMA FieldInitIInv == FieldInit => FieldIInv
BY TextsAssumption DEF FieldInit, FieldIInv, Consistent, FieldTypes, Owns, Owned, HoldsLoaded,
       IsString

LEMMA FieldStep == FieldIInv /\ [FieldNext]_field_vars => FieldIInv'
<1> SUFFICES ASSUME FieldIInv, [FieldNext]_field_vars PROVE FieldIInv'
  OBVIOUS
<1>1. CASE UNCHANGED field_vars
  BY <1>1, FieldSame
<1>2. CASE FieldNext
  BY <1>2, ConstructKeeps, DestructKeeps, LoadNumberKeeps, LoadTextKeeps, CopyKeeps
     DEF FieldNext, LoadField
<1> QED BY <1>1, <1>2

\* The invariant that the theorems about fields follow from.
LEMMA FieldsConsistent == FieldSpec => []FieldIInv
BY FieldInitIInv, FieldStep, PTL DEF FieldSpec

\* Each text field has a string that is there and is no other field's, whatever
\* was copied, loaded and destroyed.
THEOREM StringsOwned == FieldSpec => []OwnString
<1>1. FieldIInv => OwnString
  BY DEF FieldIInv, Consistent, Owns, OwnString, IsString, Exists
<1> QED BY <1>1, FieldsConsistent, PTL

\* Every string has a field that will delete it.
THEOREM NoStringLost == FieldSpec => []NoneLost
<1>1. FieldIInv => NoneLost
  BY DEF FieldIInv, Consistent, Owned, NoneLost, IsString, Exists
<1> QED BY <1>1, FieldsConsistent, PTL

\* The literal that a field writes is taken for what the field was last loaded
\* with, but for what is misread in it and what numbers lose.
THEOREM LoadedIsWritten == FieldSpec => []WrittenAsLoaded
<1>1. FieldIInv => WrittenAsLoaded
  <2> SUFFICES ASSUME FieldIInv, NEW o \in FieldObjects, Exists(o),
                      loaded[o] # EmptyText, ~Inexact(field[o], loaded[o])
               PROVE  TakenAs(field[o].db, ToSqlStr(field[o])) = {loaded[o]}
    BY DEF WrittenAsLoaded
  <2>1. Holds(field[o], heap, loaded[o])
    BY FieldTyped
  <2>2. CASE HasString(field[o])
    <3>1. /\ ToSqlStr(field[o]).text = loaded[o]
          /\ loaded[o].has \notin Misread(field[o].db)
      BY <2>1, <2>2 DEF Holds, ToSqlStr, Inexact, HasString
    <3> QED BY <3>1 DEF TakenAs
  <2>3. CASE ~HasString(field[o])
    <3>1. /\ loaded[o].number \in Int /\ field[o].value = Converted(field[o], loaded[o])
          /\ field[o] \in NumberFields
      BY <2>1, <2>3, FieldTyped DEF Holds
    <3>2. loaded[o] = NumberText(loaded[o].number)
      BY <2>3, FieldTyped, TextsAssumption DEF Inexact, HasString, NumberText
    <3>3. ~ToSqlStr(field[o]).quoted
      BY <2>3 DEF ToSqlStr
    <3>4. CASE field[o].type = "int"
      <4>1. field[o].value = Whole(loaded[o].number)
        BY <3>1, <3>4 DEF Converted, Inexact
      <4>2. ToSqlStr(field[o]).text = loaded[o]
        BY <2>3, <3>2, <3>4, <4>1 DEF ToSqlStr, Inexact
      <4> QED BY <3>3, <4>2 DEF TakenAs
    <3>5. CASE field[o].type = "real"
      <4>1. field[o].value = loaded[o].number
        BY <3>1, <3>5 DEF Converted
      <4>2. ToSqlStr(field[o]).text = loaded[o]
        BY <2>3, <3>2, <3>5, <4>1 DEF ToSqlStr, Inexact
      <4> QED BY <3>3, <4>2 DEF TakenAs
    <3> QED BY <3>1, <3>4, <3>5 DEF NumberFields
  <2> QED BY <2>2, <2>3
<1> QED BY <1>1, FieldsConsistent, PTL
-----------------------------------------------------------------------------
(***************************************************************************)
(* SqlTable, for any objects, fields, values and rows.                     *)
(***************************************************************************)
\* The flags an object has are those the program gave it since it was made or
\* cleared: no copy and no statement brings others.
FlagInv == \A o \in Objects : obj[o].condition = flagged[o]

IInv == TypeOK /\ FlagInv

USE FieldsAssumption, BoundsAssumption

LEMMA ClearedTable == \A x \in Tables :
    /\ CopyOf(x) \in Tables
    /\ CopyOf(x).condition = NoFlags
    /\ CopyOf(x).value = x.value
BY DEF CopyOf, Cleared, Tables, NoFlags, Flags

\* A row that Exec loads, column after column, into a copy of the table.
LEMMA LoadedTable ==
    ASSUME NEW x \in Tables, NEW k \in DOMAIN rows, rows[k] \in Columns
    PROVE  /\ Loaded(x, Row(k)) \in Tables
           /\ \A f \in Fields : Loaded(x, Row(k)).value[f] =
                IF rows[k][f] = Null THEN x.value[f] ELSE rows[k][f]
<1> DEFINE v == [f \in Fields |-> IF rows[k][f] = Null THEN x.value[f] ELSE rows[k][f]]
           w == [f \in Fields |-> LET u == Row(k)[Position(f)]
                                  IN  IF u = Null THEN x.value[f] ELSE u]
<1>1. v \in [Fields -> Values]
  BY DEF Tables, Columns
<1>2. CopyOf(x) \in Tables
  BY ClearedTable
<1>3. ASSUME NEW f \in Fields PROVE Row(k)[Position(f)] = rows[k][f]
  <2>1. Position(f) \in DOMAIN FieldDefine /\ FieldDefine[Position(f)] = f
    BY DEF Fields, Position
  <2> QED BY <2>1 DEF Row
<1>4. w = v
  <2> HIDE DEF Row, Position
  <2> QED BY <1>3
<1>5. Loaded(x, Row(k)) = [CopyOf(x) EXCEPT !.value = w]
  BY DEF Loaded
<1> HIDE DEF v, w
<1>6. [CopyOf(x) EXCEPT !.value = v] \in Tables /\ [CopyOf(x) EXCEPT !.value = v].value = v
  BY <1>1, <1>2 DEF Tables
<1> QED BY <1>4, <1>5, <1>6 DEF v

LEMMA InitIInv == Init => IInv
<1> SUFFICES ASSUME Init PROVE IInv OBVIOUS
<1>1. NewTable \in Tables /\ NewTable.condition = NoFlags
  BY DEF NewTable, NoFlags, Tables, Flags, ComOps
<1>2. \A k \in DOMAIN rows : rows[k] \in Columns
  BY DEF Init
<1>3. DOMAIN rows \subseteq Keys
  BY DEF Init
<1>4. DOMAIN result \subseteq Keys /\ \A k \in DOMAIN result : result[k] \in Tables
  BY DEF Init
<1>5. flagged \in [Objects -> [Fields -> Flags]]
  BY DEF Init, NoFlags, Flags
<1>6. given \in [Fields -> SUBSET Values]
  <2>1. ASSUME NEW f \in Fields
        PROVE  {Empty} \cup ({rows[k][f] : k \in DOMAIN rows} \ {Null}) \subseteq Values
    BY <1>2 DEF Columns
  <2> QED BY <2>1 DEF Init
<1> QED BY <1>1, <1>2, <1>3, <1>4, <1>5, <1>6 DEF Init, IInv, TypeOK, FlagInv
-----------------------------------------------------------------------------
\* What a call leaves of the invariant when it changes only some variables.
LEMMA CallCount == ASSUME TypeOK, Call PROVE calls' \in 0 .. MaxCalls
BY DEF TypeOK, Call

LEMMA ObjectsKept == ASSUME IInv, Call, obj' = obj, flagged' = flagged, given' = given,
    DOMAIN rows' \subseteq Keys, \A k \in DOMAIN rows' : rows'[k] \in Columns,
    DOMAIN result' \subseteq Keys, \A k \in DOMAIN result' : result'[k] \in Tables,
    exists' \in BOOLEAN
    PROVE IInv'
BY CallCount DEF IInv, TypeOK, FlagInv

LEMMA RowsKept == ASSUME IInv, Call, UNCHANGED <<exists, rows, result>>,
    given' \in [Fields -> SUBSET Values],
    NEW o \in Objects, NEW x \in Tables, NEW w \in [Fields -> Flags],
    x.condition = w,
    obj' = [obj EXCEPT ![o] = x], flagged' = [flagged EXCEPT ![o] = w]
    PROVE IInv'
BY CallCount DEF IInv, TypeOK, FlagInv

LEMMA ObjectTyped == ASSUME IInv, NEW o \in Objects
    PROVE /\ obj[o] \in Tables
          /\ flagged[o] \in [Fields -> Flags]
          /\ obj[o].condition = flagged[o]
BY DEF IInv, TypeOK, FlagInv

\* An object with one part of one field set.
LEMMA FlagSet == ASSUME NEW x \in Tables, NEW f \in Fields, NEW ops \in Flags
    PROVE /\ [x EXCEPT !.condition[f] = ops] \in Tables
          /\ [x EXCEPT !.condition[f] = ops].condition = [x.condition EXCEPT ![f] = ops]
BY DEF Tables

LEMMA ComOpsSet == ASSUME NEW x \in Tables, NEW f \in Fields, NEW op \in ComOps
    PROVE /\ [x EXCEPT !.com_ops[f] = op] \in Tables
          /\ [x EXCEPT !.com_ops[f] = op].condition = x.condition
BY DEF Tables

LEMMA ValueSet == ASSUME NEW x \in Tables, NEW f \in Fields, NEW v \in Values
    PROVE /\ [x EXCEPT !.value[f] = v] \in Tables
          /\ [x EXCEPT !.value[f] = v].condition = x.condition
BY DEF Tables

LEMMA FlagStep == ASSUME IInv, NEW o \in Objects, NEW f \in Fields,
    NEW ops \in Flags, Flag(o, f, ops) PROVE IInv'
<1> DEFINE x == [obj[o] EXCEPT !.condition[f] = ops]
           w == [flagged[o] EXCEPT ![f] = ops]
<1>1. x \in Tables /\ x.condition = w
  BY ObjectTyped, FlagSet
<1>2. w \in [Fields -> Flags]
  BY DEF IInv, TypeOK
<1>3. /\ obj' = [obj EXCEPT ![o] = x] /\ flagged' = [flagged EXCEPT ![o] = w]
      /\ given' \in [Fields -> SUBSET Values]
  BY DEF Flag, IInv, TypeOK
<1> HIDE DEF x, w
<1> QED BY <1>1, <1>2, <1>3, RowsKept DEF Flag

LEMMA SetComOpsStep == ASSUME IInv, NEW o \in Objects, NEW f \in Fields,
    NEW op \in ComOps, SetComOps(o, f, op) PROVE IInv'
<1> DEFINE x == [obj[o] EXCEPT !.com_ops[f] = op]
<1>1. x \in Tables /\ x.condition = flagged[o]
  BY ObjectTyped, ComOpsSet
<1>2. flagged[o] \in [Fields -> Flags] /\ flagged = [flagged EXCEPT ![o] = flagged[o]]
  BY DEF IInv, TypeOK
<1>3. /\ obj' = [obj EXCEPT ![o] = x] /\ flagged' = [flagged EXCEPT ![o] = flagged[o]]
      /\ given' \in [Fields -> SUBSET Values]
  BY <1>2 DEF SetComOps, IInv, TypeOK
<1> HIDE DEF x
<1> QED BY <1>1, <1>2, <1>3, RowsKept DEF SetComOps

LEMMA LoadFromStrStep == ASSUME IInv, NEW o \in Objects, NEW f \in Fields,
    NEW v \in Values, LoadFromStr(o, f, v) PROVE IInv'
<1> DEFINE x == [obj[o] EXCEPT !.value[f] = v]
<1>1. x \in Tables /\ x.condition = flagged[o]
  BY ObjectTyped, ValueSet
<1>2. flagged[o] \in [Fields -> Flags] /\ flagged = [flagged EXCEPT ![o] = flagged[o]]
  BY DEF IInv, TypeOK
<1>3. /\ obj' = [obj EXCEPT ![o] = x] /\ flagged' = [flagged EXCEPT ![o] = flagged[o]]
      /\ given' \in [Fields -> SUBSET Values]
  BY <1>2 DEF LoadFromStr, IInv, TypeOK
<1> HIDE DEF x
<1> QED BY <1>1, <1>2, <1>3, RowsKept DEF LoadFromStr

LEMMA NoFlagsType == NoFlags \in [Fields -> Flags]
BY DEF NoFlags, Flags

LEMMA ClearConditionStep == ASSUME IInv, NEW o \in Objects, ClearCondition(o) PROVE IInv'
<1>1. Cleared(obj[o]) \in Tables /\ Cleared(obj[o]).condition = NoFlags
  BY ClearedTable DEF IInv, TypeOK, CopyOf
<1>2. obj' = [obj EXCEPT ![o] = Cleared(obj[o])]
  BY DEF ClearCondition
<1>3. given' \in [Fields -> SUBSET Values]
  BY DEF ClearCondition, IInv, TypeOK
<1> QED BY <1>1, <1>2, <1>3, NoFlagsType, RowsKept DEF ClearCondition

LEMMA CopyStep == ASSUME IInv, NEW o \in Objects, NEW p \in Objects, Copy(o, p) PROVE IInv'
<1>1. PICK x \in {obj[o]} \cup {result[k] : k \in DOMAIN result} :
        obj' = [obj EXCEPT ![p] = CopyOf(x)]
  BY DEF Copy
<1>2. x \in Tables
  BY DEF IInv, TypeOK
<1>3. CopyOf(x) \in Tables /\ CopyOf(x).condition = NoFlags
  BY <1>2, ClearedTable
<1>4. given' \in [Fields -> SUBSET Values]
  BY DEF Copy, IInv, TypeOK
<1> QED BY <1>1, <1>3, <1>4, NoFlagsType, RowsKept DEF Copy

LEMMA DropStep == ASSUME IInv, Drop PROVE IInv'
<1>1. DOMAIN rows' = {}
  BY DEF Drop
<1> QED BY <1>1, ObjectsKept DEF Drop, IInv, TypeOK

LEMMA CreateStep == ASSUME IInv, Create PROVE IInv'
BY ObjectsKept DEF Create, IInv, TypeOK

LEMMA InsertStep == ASSUME IInv, NEW o \in Objects, Insert(o) PROVE IInv'
<1> DEFINE s == InsertSql(obj[o])
<1>1. DOMAIN rows' \subseteq Keys /\ \A k \in DOMAIN rows' : rows'[k] \in Columns
  <2>1. CASE UNCHANGED rows
    BY <2>1 DEF IInv, TypeOK
  <2>2. ASSUME Inserted(s) \in Columns, NEW k \in Keys,
               rows' = [j \in DOMAIN rows \cup {k} |->
                          IF j = k THEN Inserted(s) ELSE rows[j]]
        PROVE  DOMAIN rows' \subseteq Keys /\ \A j \in DOMAIN rows' : rows'[j] \in Columns
    <3> HIDE DEF s
    <3> QED BY <2>2 DEF IInv, TypeOK
  <2> HIDE DEF s
  <2> QED BY <2>1, <2>2 DEF Insert, s
<1> QED BY <1>1, ObjectsKept DEF Insert, IInv, TypeOK

LEMMA DeleteStep == ASSUME IInv, NEW o \in Objects, Delete(o) PROVE IInv'
<1>1. DOMAIN rows' \subseteq Keys /\ \A k \in DOMAIN rows' : rows'[k] \in Columns
  <2> DEFINE D == DOMAIN rows \ (IF Refused(DeleteSql(obj[o])) THEN {} ELSE Selected(DeleteSql(obj[o])))
  <2>1. rows' = [k \in D |-> rows[k]]
    BY DEF Delete
  <2>2. D \subseteq DOMAIN rows
    OBVIOUS
  <2> HIDE DEF D
  <2> QED BY <2>1, <2>2 DEF IInv, TypeOK
<1> QED BY <1>1, ObjectsKept DEF Delete, IInv, TypeOK

LEMMA ListedValues == ASSUME NEW x \in Tables, NEW op \in FieldOps
    PROVE  /\ DOMAIN Listed(x, op) = With(x, op)
           /\ With(x, op) \subseteq Fields
           /\ \A f \in With(x, op) : Listed(x, op)[f] = x.value[f] /\ x.value[f] \in Values
BY DEF Listed, With, Tables

LEMMA ModifyStep == ASSUME IInv, NEW o \in Objects, NEW p \in Objects, Modify(o, p) PROVE IInv'
<1> DEFINE s == ModifySql(obj[o], obj[p])
<1>1. /\ \A f \in DOMAIN s.set : s.set[f] \in Values
  BY ListedValues DEF ModifySql, IInv, TypeOK, FieldOps
<1>2. DOMAIN rows' \subseteq Keys /\ \A k \in DOMAIN rows' : rows'[k] \in Columns
  <2>1. CASE rows' = rows
    BY <2>1 DEF IInv, TypeOK
  <2>2. CASE rows' = [k \in DOMAIN rows |->
                  [f \in Fields |-> IF k \in Selected(s) /\ f \in DOMAIN s.set
                                    THEN s.set[f] ELSE rows[k][f]]]
    <3> HIDE DEF s
    <3>1. DOMAIN rows' = DOMAIN rows
      BY <2>2
    <3>2. ASSUME NEW k \in DOMAIN rows PROVE rows'[k] \in Columns
      <4>1. rows[k] \in Columns
        BY DEF IInv, TypeOK
      <4>2. rows'[k] = [f \in Fields |-> IF k \in Selected(s) /\ f \in DOMAIN s.set
                                    THEN s.set[f] ELSE rows[k][f]]
        BY <2>2
      <4>3. rows'[k] \in [Fields -> Values \cup {Null}]
        BY <4>1, <4>2, <1>1 DEF Columns
      <4>4. \A f \in NotNull : rows'[k][f] # Null
        BY <4>1, <4>2, <1>1 DEF Columns
      <4> QED BY <4>3, <4>4 DEF Columns
    <3> QED BY <3>1, <3>2 DEF IInv, TypeOK
  <2> HIDE DEF s
  <2> QED BY <2>1, <2>2 DEF Modify, s
<1> QED BY <1>2, ObjectsKept DEF Modify, IInv, TypeOK

\* What Query puts into the Result: rows of the table, each loaded into a copy
\* of the object.
LEMMA QueryResult == ASSUME IInv, NEW o \in Objects, NEW cond, Query(o, cond)
    PROVE /\ DOMAIN result' \subseteq DOMAIN rows
          /\ \A k \in DOMAIN result' : result'[k] = Loaded(obj[o], Row(k))
<1> DEFINE D == IF Refused(QuerySql(cond)) THEN {} ELSE Selected(QuerySql(cond))
<1>1. result' = [k \in D |-> Loaded(obj[o], Row(k))]
  BY DEF Query
<1>2. D \subseteq DOMAIN rows
  BY DEF Selected
<1> HIDE DEF D
<1> QED BY <1>1, <1>2

LEMMA QueryStep == ASSUME IInv, NEW o \in Objects, NEW cond, Query(o, cond) PROVE IInv'
<1>1. DOMAIN result' \subseteq Keys
  BY QueryResult DEF IInv, TypeOK
<1>2. ASSUME NEW k \in DOMAIN result' PROVE result'[k] \in Tables
  <2>1. k \in DOMAIN rows /\ result'[k] = Loaded(obj[o], Row(k))
    BY QueryResult
  <2>2. rows[k] \in Columns /\ obj[o] \in Tables
    BY <2>1 DEF IInv, TypeOK
  <2> QED BY <2>1, <2>2, LoadedTable
<1> QED BY <1>1, <1>2, ObjectsKept DEF Query, IInv, TypeOK

LEMMA IInvStep == IInv /\ [Next]_vars => IInv'
<1> SUFFICES ASSUME IInv, [Next]_vars PROVE IInv' OBVIOUS
<1>1. CASE UNCHANGED vars
  BY <1>1 DEF IInv, TypeOK, FlagInv, vars
<1>2. CASE Next
  BY <1>2, CreateStep, DropStep, FlagStep, SetComOpsStep, LoadFromStrStep,
     ClearConditionStep, InsertStep, DeleteStep, CopyStep, ModifyStep, QueryStep DEF Next
<1> QED BY <1>1, <1>2

LEMMA Invariance == Spec => []IInv
BY InitIInv, IInvStep, PTL DEF Spec

\* __Table: every object of the program and of a Result holds values it can
\* write back, also those loaded from a row with NULL.
THEOREM TablesTyped == Spec => []TypeOK
<1>1. IInv => TypeOK
  BY DEF IInv
<1> QED BY <1>1, Invariance, PTL
-----------------------------------------------------------------------------
\* Rows are touched by Drop, Insert, Delete and Modify only.
LEMMA RowsOnlyBy ==
    ASSUME [Next]_vars, rows' # rows
    PROVE  \/ Drop
           \/ \E o \in Objects : Insert(o) \/ Delete(o) \/ \E p \in Objects : Modify(o, p)
BY DEF Next, vars, Create, Flag, SetComOps, LoadFromStr, ClearCondition, Copy, Query

LEMMA InsertKeeps == ASSUME NEW o \in Objects, Insert(o), NEW k \in DOMAIN rows
    PROVE  k \in DOMAIN rows' /\ rows'[k] = rows[k]
<1>1. CASE UNCHANGED rows
  BY <1>1
<1>2. ASSUME NEW i \in Keys \ DOMAIN rows, NEW r,
             rows' = [j \in DOMAIN rows \cup {i} |-> IF j = i THEN r ELSE rows[j]]
      PROVE  k \in DOMAIN rows' /\ rows'[k] = rows[k]
  BY <1>2
<1> QED BY <1>1, <1>2 DEF Insert

\* The rows that a statement with conditions of object o selects.
LEMMA SelectedMeet ==
    ASSUME IInv, NEW o \in Objects, NEW s, s.cond = Where(obj[o]), NEW k \in Selected(s)
    PROVE  k \in DOMAIN rows /\ MeetsFlagged(rows[k], o)
<1>1. k \in DOMAIN rows /\ Meets(rows[k], Where(obj[o]))
  BY DEF Selected
<1>2. ASSUME NEW f \in Fields, "CONDITION" \in flagged[o][f]
      PROVE  Matches(rows[k][f], [com_ops |-> obj[o].com_ops[f], value |-> obj[o].value[f]])
  <2>1. f \in With(obj[o], "CONDITION")
    BY <1>2 DEF With, IInv, FlagInv
  <2> QED BY <1>1, <2>1 DEF Meets, Where
<1> QED BY <1>1, <1>2 DEF MeetsFlagged

LEMMA ModifyExact ==
    ASSUME IInv, NEW o \in Objects, NEW p \in Objects, Modify(o, p),
           NEW k \in DOMAIN rows \cap DOMAIN rows', rows'[k] # rows[k]
    PROVE  /\ MeetsFlagged(rows[k], o)
           /\ \A f \in Fields : rows'[k][f] # rows[k][f] =>
                "MODIFY" \in flagged[p][f] /\ rows'[k][f] = obj[p].value[f]
<1> DEFINE s == ModifySql(obj[o], obj[p])
<1>0. s.cond = Where(obj[o]) /\ s.set = Listed(obj[p], "MODIFY")
  BY DEF ModifySql
<1>1. rows' = [i \in DOMAIN rows |->
                  [f \in Fields |-> IF i \in Selected(s) /\ f \in DOMAIN s.set
                                    THEN s.set[f] ELSE rows[i][f]]]
  BY DEF Modify
<1> HIDE DEF s
<1>2. rows'[k] = [f \in Fields |-> IF k \in Selected(s) /\ f \in DOMAIN s.set
                                  THEN s.set[f] ELSE rows[k][f]]
  BY <1>1
<1>3. rows[k] \in [Fields -> Values \cup {Null}]
  BY DEF IInv, TypeOK, Columns
<1>4. k \in Selected(s)
  <2> SUFFICES ASSUME k \notin Selected(s) PROVE FALSE OBVIOUS
  <2>1. rows'[k] = [f \in Fields |-> rows[k][f]]
    BY <1>2
  <2> QED BY <2>1, <1>3
<1>5. ASSUME NEW f \in Fields, rows'[k][f] # rows[k][f]
      PROVE  "MODIFY" \in flagged[p][f] /\ rows'[k][f] = obj[p].value[f]
  <2>1. f \in DOMAIN s.set /\ rows'[k][f] = s.set[f]
    BY <1>2, <1>5
  <2>2. f \in With(obj[p], "MODIFY") /\ s.set[f] = obj[p].value[f]
    BY <2>1, <1>0, ListedValues DEF FieldOps, IInv, TypeOK
  <2> QED BY <2>1, <2>2 DEF With, IInv, FlagInv
<1> QED BY <1>0, <1>4, <1>5, SelectedMeet

\* __MysqlTable::Modify: a row that changes meets the conditions of the object it
\* is called on, and only fields flagged on its argument change, to its values.
THEOREM ModifyFlaggedOnly == Spec => ModifiesOnlyFlagged
<1>1. ASSUME IInv, [Next]_vars, NEW k \in DOMAIN rows \cap DOMAIN rows', rows'[k] # rows[k]
      PROVE  \E o, p \in Objects :
               /\ Modify(o, p)
               /\ MeetsFlagged(rows[k], o)
               /\ \A f \in Fields : rows'[k][f] # rows[k][f] =>
                    "MODIFY" \in flagged[p][f] /\ rows'[k][f] = obj[p].value[f]
  <2>1. CASE Drop
    <3>1. DOMAIN rows' = {}
      BY <2>1 DEF Drop
    <3> QED BY <1>1, <3>1
  <2>2. ASSUME NEW o \in Objects, Delete(o) PROVE FALSE
    <3> DEFINE D == DOMAIN rows \ (IF Refused(DeleteSql(obj[o])) THEN {} ELSE Selected(DeleteSql(obj[o])))
    <3>1. rows' = [i \in D |-> rows[i]]
      BY <2>2 DEF Delete
    <3> HIDE DEF D
    <3> QED BY <3>1, <1>1
  <2>3. ASSUME NEW o \in Objects, Insert(o) PROVE FALSE
    BY <2>3, <1>1, InsertKeeps
  <2> QED BY <1>1, <2>1, <2>2, <2>3, RowsOnlyBy, ModifyExact
<1>2. IInv /\ [Next]_vars =>
        [\A k \in DOMAIN rows \cap DOMAIN rows' : rows'[k] # rows[k] =>
         \E o, p \in Objects :
           /\ Modify(o, p)
           /\ MeetsFlagged(rows[k], o)
           /\ \A f \in Fields : rows'[k][f] # rows[k][f] =>
                "MODIFY" \in flagged[p][f] /\ rows'[k][f] = obj[p].value[f]]_vars
  BY <1>1
<1> QED BY <1>2, Invariance, PTL DEF Spec, ModifiesOnlyFlagged

-----------------------------------------------------------------------------
(***************************************************************************)
(* Values and their fields.                                                *)
(***************************************************************************)
OwnValues(x, g) == \A f \in Fields : x.value[f] \in g[f]

OwnColumns(col, g) == \A f \in Fields : col[f] \in g[f] \cup {Null}

LEMMA NoForeignIs ==
    NoForeignValue <=>
      /\ \A o \in Objects : OwnValues(obj[o], given)
      /\ \A k \in DOMAIN rows : OwnColumns(rows[k], given)
      /\ \A k \in DOMAIN result : OwnValues(result[k], given)
BY DEF NoForeignValue, OwnValues, OwnColumns

LEMMA NoForeignInit == Init => NoForeignValue
<1> SUFFICES ASSUME Init PROVE NoForeignValue OBVIOUS
<1>1. \A f \in Fields : given[f] = {Empty} \cup ({rows[k][f] : k \in DOMAIN rows} \ {Null})
  BY DEF Init
<1>2. \A o \in Objects, f \in Fields : obj[o].value[f] = Empty
  BY DEF Init, NewTable
<1>3. DOMAIN result = {}
  BY DEF Init
<1> QED BY <1>1, <1>2, <1>3 DEF NoForeignValue

\* What the program sets on an object, and what is copied to one.
LEMMA NoForeignObject ==
    ASSUME TypeOK, NoForeignValue, UNCHANGED <<rows, result>>,
           NEW o \in Objects, NEW x, obj' = [obj EXCEPT ![o] = x], OwnValues(x, given'),
           \A f \in Fields : given[f] \subseteq given'[f]
    PROVE  NoForeignValue'
<1>1. \A p \in Objects : p # o => obj'[p] = obj[p]
  BY DEF TypeOK
<1>2. obj'[o] = x
  BY DEF TypeOK
<1> QED BY <1>1, <1>2 DEF NoForeignValue, OwnValues

LEMMA NoForeignSet ==
    ASSUME TypeOK, NoForeignValue, NEW o \in Objects,
           \/ \E f \in Fields, ops \in Flags : Flag(o, f, ops)
           \/ \E f \in Fields, op \in ComOps : SetComOps(o, f, op)
           \/ \E f \in Fields, v \in Values : LoadFromStr(o, f, v)
           \/ ClearCondition(o)
    PROVE  NoForeignValue'
<1>1. obj[o] \in Tables /\ OwnValues(obj[o], given) /\ obj = [p \in Objects |-> obj[p]]
      /\ given \in [Fields -> SUBSET Values]
  BY NoForeignIs DEF TypeOK
<1>2. ASSUME NEW f \in Fields, NEW ops \in Flags, Flag(o, f, ops) PROVE NoForeignValue'
  <2>1. obj' = [obj EXCEPT ![o] = [obj[o] EXCEPT !.condition[f] = ops]] /\ given' = given
        /\ UNCHANGED <<rows, result>>
    BY <1>2 DEF Flag
  <2>2. OwnValues([obj[o] EXCEPT !.condition[f] = ops], given)
    BY <1>1 DEF OwnValues, Tables
  <2> QED BY <2>1, <2>2, NoForeignObject
<1>3. ASSUME NEW f \in Fields, NEW op \in ComOps, SetComOps(o, f, op) PROVE NoForeignValue'
  <2>1. obj' = [obj EXCEPT ![o] = [obj[o] EXCEPT !.com_ops[f] = op]] /\ given' = given
        /\ UNCHANGED <<rows, result>>
    BY <1>3 DEF SetComOps
  <2>2. OwnValues([obj[o] EXCEPT !.com_ops[f] = op], given)
    BY <1>1 DEF OwnValues, Tables
  <2> QED BY <2>1, <2>2, NoForeignObject
<1>4. ASSUME NEW f \in Fields, NEW v \in Values, LoadFromStr(o, f, v) PROVE NoForeignValue'
  <2>1. /\ obj' = [obj EXCEPT ![o] = [obj[o] EXCEPT !.value[f] = v]]
        /\ given' = [given EXCEPT ![f] = @ \cup {v}]
        /\ UNCHANGED <<rows, result>>
    BY <1>4 DEF LoadFromStr
  <2>2. \A g \in Fields : given[g] \subseteq given'[g] /\ v \in given'[f]
    BY <1>1, <2>1
  <2>3. OwnValues([obj[o] EXCEPT !.value[f] = v], given')
    BY <1>1, <2>2 DEF OwnValues, Tables
  <2> QED BY <2>1, <2>2, <2>3, NoForeignObject
<1>5. CASE ClearCondition(o)
  <2>1. obj' = [obj EXCEPT ![o] = Cleared(obj[o])] /\ given' = given /\ UNCHANGED <<rows, result>>
    BY <1>5 DEF ClearCondition
  <2>2. OwnValues(Cleared(obj[o]), given)
    BY <1>1 DEF OwnValues, Cleared, Tables
  <2> QED BY <2>1, <2>2, NoForeignObject
<1> QED BY <1>2, <1>3, <1>4, <1>5

LEMMA NoForeignCopy ==
    ASSUME TypeOK, NoForeignValue, NEW o \in Objects, NEW p \in Objects, Copy(o, p)
    PROVE  NoForeignValue'
<1>1. PICK x \in {obj[o]} \cup {result[k] : k \in DOMAIN result} :
        obj' = [obj EXCEPT ![p] = CopyOf(x)]
  BY DEF Copy
<1>2. x \in Tables /\ OwnValues(x, given)
  BY NoForeignIs DEF TypeOK
<1>3. OwnValues(CopyOf(x), given)
  BY <1>2, ClearedTable DEF OwnValues
<1> QED BY <1>1, <1>3, NoForeignObject DEF Copy

\* Statements change rows, or the Result.
LEMMA NoForeignRows ==
    ASSUME NoForeignValue, UNCHANGED <<obj, result, given>>,
           \A k \in DOMAIN rows' : OwnColumns(rows'[k], given)
    PROVE  NoForeignValue'
BY DEF NoForeignValue, OwnColumns

LEMMA NoForeignInsert ==
    ASSUME TypeOK, NoForeignValue, NEW o \in Objects, Insert(o)
    PROVE  NoForeignValue'
<1> DEFINE r == Inserted(InsertSql(obj[o]))
<1>1. OwnColumns(r, given)
  <2>1. obj[o] \in Tables
    BY DEF TypeOK
  <2>2. \A f \in DOMAIN Listed(obj[o], "INSERT") : Listed(obj[o], "INSERT")[f] = obj[o].value[f]
    BY <2>1, ListedValues DEF FieldOps
  <2> QED BY <2>2 DEF OwnColumns, Inserted, InsertSql, NoForeignValue
<1> HIDE DEF r
<1>2. CASE UNCHANGED rows
  BY <1>2, NoForeignRows DEF Insert, NoForeignValue, OwnColumns
<1>3. ASSUME NEW k \in Keys \ DOMAIN rows,
             rows' = [j \in DOMAIN rows \cup {k} |-> IF j = k THEN r ELSE rows[j]]
      PROVE  NoForeignValue'
  <2>1. \A j \in DOMAIN rows' : rows'[j] = r \/ (j \in DOMAIN rows /\ rows'[j] = rows[j])
    BY <1>3
  <2>2. \A j \in DOMAIN rows' : OwnColumns(rows'[j], given)
    BY <1>1, <2>1, NoForeignIs
  <2> QED BY <2>2, NoForeignRows DEF Insert
<1> QED BY <1>2, <1>3 DEF Insert, r

LEMMA NoForeignDelete ==
    ASSUME TypeOK, NoForeignValue, NEW o \in Objects, Delete(o)
    PROVE  NoForeignValue'
<1> DEFINE D == DOMAIN rows \ (IF Refused(DeleteSql(obj[o])) THEN {} ELSE Selected(DeleteSql(obj[o])))
<1>1. rows' = [k \in D |-> rows[k]] /\ D \subseteq DOMAIN rows
  BY DEF Delete
<1> HIDE DEF D
<1>2. \A k \in DOMAIN rows' : OwnColumns(rows'[k], given)
  BY <1>1, NoForeignIs
<1> QED BY <1>2, NoForeignRows DEF Delete

LEMMA NoForeignModify ==
    ASSUME TypeOK, NoForeignValue, NEW o \in Objects, NEW p \in Objects, Modify(o, p)
    PROVE  NoForeignValue'
<1> DEFINE s == ModifySql(obj[o], obj[p])
<1>1. \A f \in DOMAIN s.set : s.set[f] = obj[p].value[f]
  <2>1. obj[p] \in Tables /\ s.set = Listed(obj[p], "MODIFY")
    BY DEF TypeOK, ModifySql
  <2> HIDE DEF s
  <2> QED BY <2>1, ListedValues DEF FieldOps
<1>2. CASE rows' = rows
  BY <1>2, NoForeignRows DEF Modify, NoForeignValue, OwnColumns
<1>3. CASE rows' = [k \in DOMAIN rows |->
                  [f \in Fields |-> IF k \in Selected(s) /\ f \in DOMAIN s.set
                                    THEN s.set[f] ELSE rows[k][f]]]
  <2> HIDE DEF s
  <2>1. ASSUME NEW k \in DOMAIN rows' PROVE OwnColumns(rows'[k], given)
    <3>1. k \in DOMAIN rows
      BY <1>3, <2>1
    <3>2. \A f \in Fields : rows'[k][f] \in {obj[p].value[f], rows[k][f]}
      BY <1>1, <1>3, <3>1
    <3> QED BY <3>1, <3>2 DEF OwnColumns, NoForeignValue
  <2> QED BY <2>1, NoForeignRows DEF Modify
<1> HIDE DEF s
<1> QED BY <1>2, <1>3 DEF Modify, s

LEMMA NoForeignQuery ==
    ASSUME IInv, NoForeignValue, NEW o \in Objects, NEW cond, Query(o, cond)
    PROVE  NoForeignValue'
<1>1. ASSUME NEW k \in DOMAIN result' PROVE OwnValues(result'[k], given)
  <2>1. k \in DOMAIN rows /\ result'[k] = Loaded(obj[o], Row(k))
    BY QueryResult
  <2>2. \A f \in Fields : result'[k].value[f] =
          IF rows[k][f] = Null THEN obj[o].value[f] ELSE rows[k][f]
    BY <2>1, LoadedTable DEF IInv, TypeOK
  <2> QED BY <2>1, <2>2 DEF OwnValues, NoForeignValue
<1> QED BY <1>1 DEF Query, NoForeignValue, OwnValues

\* MysqlClient::Exec and the statements: what objects, rows and tables of the
\* Result have for a field was given to a field of that name.
THEOREM ValuesKeepFields == Spec => []NoForeignValue
<1>1. IInv /\ NoForeignValue /\ [Next]_vars => NoForeignValue'
  <2> SUFFICES ASSUME IInv, NoForeignValue, [Next]_vars PROVE NoForeignValue'
    OBVIOUS
  <2>0. TypeOK
    BY DEF IInv
  <2>1. CASE UNCHANGED vars
    BY <2>1 DEF vars, NoForeignValue
  <2>2. CASE Create \/ Drop
    BY <2>2 DEF Create, Drop, NoForeignValue
  <2>3. CASE Next /\ ~(Create \/ Drop)
    BY <2>0, <2>3, NoForeignSet, NoForeignCopy, NoForeignInsert, NoForeignDelete,
       NoForeignModify, NoForeignQuery DEF Next
  <2> QED BY <2>1, <2>2, <2>3
<1> QED BY <1>1, NoForeignInit, Invariance, PTL DEF Spec
=============================================================================
