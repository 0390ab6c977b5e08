-------------------------- MODULE FilterExpression --------------------------
(***************************************************************************)
(* The filter of a find: the tree that FilterParser::parse makes of it, the *)
(* evaluation of that tree on a document (db/binaryexpression.cpp,          *)
(* unaryexpression, simpleexpression, constantexpression), and what the     *)
(* fields named in it decide in DBController::find.                         *)
(*                                                                         *)
(* A filter is evaluated on three representations: a document of the log    *)
(* is a BSONObj, one of the data file a BSONBufferedObj, and the index has  *)
(* a BSONObj of the _id alone.  The namespace holds one document here: a    *)
(* filter looks at one at a time.                                           *)
(***************************************************************************)
EXTENDS Naturals, FiniteSets

CONSTANTS
    IntMax,     \* INT_MAX
    Filter,     \* the filters asked for, trees of the forms below
    Age,        \* what the field "age" of a document may hold
    A,          \* what its field "a" may hold, which is stored before "age"
    None        \* no document

ASSUME FilterAssumption == IntMax \in Nat \ {0}

Null == [type |-> "null"]
Boolean(b) == [type |-> "boolean", value |-> b]
String(s) == [type |-> "string", value |-> s]
Object(v) == [type |-> "object", value |-> v]
Array == [type |-> "array"]

\* json_const of the document parser: what fits is an int
DocumentNumber(d) == [type |-> IF d <= IntMax THEN "int" ELSE "long", value |-> d]

\* Mutant: every number of a filter is an int
FilterNumberInt(d) == [type |-> "int", value |-> d]

\* constant_expr of the filter parser
FilterNumber(d) == [type |-> IF d < IntMax THEN "int" ELSE "long", value |-> d]

\* The trees
Constant(v) == [kind |-> "constant", value |-> v]
Simple(f) == [kind |-> "simple", field |-> f]
Unary(o, e) == [kind |-> "unary", oper |-> o, of |-> e]
Binary(o, l, r) == [kind |-> "binary", oper |-> o, left |-> l, right |-> r]
Empty == [kind |-> "empty"]

Field == {"_id", "age", "age.in"}

VARIABLES
    doc,      \* the document, None before it is inserted
    place,    \* "log", "data" or "removed"
    tokens,   \* __parser_field_tokens
    up        \* the server runs

vars == <<doc, place, tokens, up>>

Init == doc = None /\ place = "log" /\ tokens = {} /\ up = TRUE

-----------------------------------------------------------------------------
(* The values of fields.                                                    *)

Id == String("id")

\* What is stored under the name: getValue compares whole keys.
Value(d, name) == CASE name = "_id" -> Id [] name = "age" -> d.age [] OTHER -> Null

\* BSONBufferedObj::getType of "age": the type of the first key, in their
\* order, that "age" begins with
GetType(d) == IF d.a # Null THEN d.a.type ELSE d.age.type

Crash == [type |-> "crash"]

\* What the bytes of a value may give that are read with another type: an array
\* is not read further, any bytes are a number, and the length of a string and
\* the parts of an object may lie anywhere.
Misread(type) ==
    CASE type = "array" -> {Array}
      [] type = "object" -> {Crash, Null}
      [] type = "string" -> {Crash, String("s"), String("other")}
      [] type = "boolean" -> {Boolean(b) : b \in BOOLEAN}
      [] type = "int" -> {[type |-> "int", value |-> n] : n \in 0..IntMax}
      [] OTHER -> {[type |-> "long", value |-> n] : n \in 0..IntMax + 1}

\* What the data file gives for "age"
Read(d) == IF d.age = Null \/ GetType(d) = d.age.type THEN {d.age} ELSE Misread(GetType(d))

\* The documents that expressions are evaluated on; content is what getContent
\* gives for "age"
Logged(d) == [age |-> d.age, content |-> d.age, buffered |-> FALSE]
Buffered(d) == {[age |-> d.age, content |-> v, buffered |-> TRUE] : v \in Read(d)}
IndexKey == [age |-> Null, content |-> Null, buffered |-> FALSE]

Content(d, name) == IF name = "age" THEN d.content ELSE Value(d, name)

\* Mutant: a path ends at the first name in the data file
GetXpathFirst(d, field) ==
    LET found == Content(d, IF field = "age.in" THEN "age" ELSE field)
    IN  IF found.type # "object" THEN found
        ELSE IF field = "age.in" /\ ~d.buffered THEN found.value
        ELSE found

\* getXpath: what follows the dot is looked for in an object, and ignored when
\* there is none.  BSONBufferedObj goes into an object though nothing follows,
\* and finds nothing.
GetXpath(d, field) ==
    LET inner == field = "age.in"
        found == Content(d, IF inner THEN "age" ELSE field)
    IN  IF found.type # "object" THEN found
        ELSE IF inner THEN found.value
        ELSE IF d.buffered THEN Null
        ELSE found

\* has knows no paths, and no types.
Has(d, field) == Value(d, field) # Null

-----------------------------------------------------------------------------
(* Evaluation.  Crash: an exception that nobody catches, the NULL that      *)
(* evalAndOr returns and every caller reads, or a read of a wrong address.  *)

\* Mutant: the content of a field that is missing is read
EvalSimpleMissing(d, field) ==
    LET found == GetXpath(d, field)
    IN  IF found.type \in {"object", "array", "null"} THEN Crash ELSE found

\* SimpleExpression::eval
EvalSimple(d, field) ==
    LET found == GetXpath(d, field)
    IN  IF found.type \in {"object", "array"} THEN Crash ELSE found

\* evalEqual has no case for two nulls.
EvalEqual(l, r) == Boolean(l.type = r.type /\ l # Null /\ l = r)

Number == {"int", "long", "double"}

\* Mutant: the operators with "equal" forget it
EvalComparisonStrict(oper, l, r) ==
    LET greater == l.type \in Number /\ l.value > r.value
    IN  IF l.type # r.type THEN Boolean(FALSE)
        ELSE Boolean(IF oper \in {"<", "<="} THEN ~greater ELSE greater)

\* evalComparison compares by "greater", which holds of numbers only, and
\* inverts it.
EvalComparison(oper, l, r) ==
    LET greater == l.type \in Number /\ l.value > r.value
    IN  IF l.type # r.type THEN Boolean(FALSE)
        ELSE IF (~greater /\ oper = ">=") \/ (greater /\ oper = "<=") THEN EvalEqual(l, r)
        ELSE Boolean(IF oper \in {"<", "<="} THEN ~greater ELSE greater)

\* evalAndOr evaluates both sides.
EvalAndOr(oper, l, r) ==
    IF {l.type, r.type} # {"boolean"} THEN Crash
    ELSE Boolean(IF oper = "and" THEN l.value /\ r.value ELSE l.value \/ r.value)

RECURSIVE Eval(_, _)
\* FilterParser::eval
Eval(e, d) ==
    CASE e.kind = "empty" -> Boolean(TRUE)
      [] e.kind = "constant" -> e.value
      [] e.kind = "simple" -> EvalSimple(d, e.field)
      [] e.kind = "unary" ->
           IF e.oper = "exists" THEN Boolean(Has(d, e.of.field))
           ELSE Boolean(~Eval(e.of, d).value)
      [] OTHER ->
           LET l == Eval(e.left, d)
               r == Eval(e.right, d)
           IN  IF Crash \in {l, r} THEN Crash
               ELSE CASE e.oper = "==" -> EvalEqual(l, r)
                      [] e.oper = "!=" -> Boolean(~EvalEqual(l, r).value)
                      [] e.oper \in {"and", "or"} -> EvalAndOr(e.oper, l, r)
                      [] OTHER -> EvalComparison(e.oper, l, r)

-----------------------------------------------------------------------------
(* Finding.                                                                 *)

RECURSIVE Fields(_)
\* the fields that addToken is called with, one call for each $'field'
Fields(e) ==
    CASE e.kind = "simple" -> {e.field}
      [] e.kind = "unary" -> Fields(e.of)
      [] e.kind = "binary" -> Fields(e.left) \union Fields(e.right)
      [] OTHER -> {}

\* Mutant: a field counts once it was named by an earlier filter
TokensEarlier(e) == IF e = Empty THEN {} ELSE tokens

\* FilterParser::parse: the set of all fields that any filter named, unless
\* the filter is empty
Tokens(e) == IF e = Empty THEN {} ELSE tokens \union Fields(e)

\* IndexFactory::containsIndex: there is an index on _id once the document was
\* written to the data file.
ThroughIndex(e) == place # "log" /\ Tokens(e) = {"_id"}

\* BaseTransaction::find evaluates the operations of the log, DBController
\* either the keys of the index or the active records; {}: nothing at all
Evaluated(e) ==
    CASE doc = None -> {}
      [] doc # None /\ place = "log" -> {Logged(doc)}
      [] doc # None /\ place # "log" /\ ThroughIndex(e) -> {IndexKey}
      [] doc # None /\ place = "data" /\ ~ThroughIndex(e) -> Buffered(doc)
      [] OTHER -> {}

\* What a find may come to: the document is in the answer, or not, or Crash
Results(e) ==
    IF Evaluated(e) = {} THEN {Boolean(FALSE)}
    ELSE {IF v = Crash THEN Crash ELSE Boolean(v = Boolean(TRUE)) :
            v \in {Eval(e, d) : d \in Evaluated(e)}}

Find(e) ==
    /\ up
    /\ tokens' = tokens \union Fields(e)
    /\ \E result \in Results(e) : up' = (result # Crash)
    /\ UNCHANGED <<doc, place>>

-----------------------------------------------------------------------------
(* The document comes, is flushed to the data file, and is removed there.   *)

Insert(age, a) ==
    /\ up /\ doc = None
    /\ doc' = [age |-> age, a |-> a]
    /\ UNCHANGED <<place, tokens, up>>

Flush ==
    /\ up /\ doc # None /\ place = "log"
    /\ place' = "data"
    /\ UNCHANGED <<doc, tokens, up>>

Remove ==
    /\ up /\ place = "data"
    /\ place' = "removed"
    /\ UNCHANGED <<doc, tokens, up>>

Next ==
    \/ \E e \in Filter : Find(e)
    \/ \E age \in Age, a \in A : Insert(age, a)
    \/ Flush \/ Remove

Spec == Init /\ [][Next]_vars

-----------------------------------------------------------------------------
(* The reference: what the filter means.                                    *)

\* The field that the path names
Named(d, field) ==
    IF field # "age.in" THEN Value(d, field)
    ELSE IF d.age.type = "object" THEN d.age.value ELSE Null

RECURSIVE Meaning(_, _)
Meaning(e, d) ==
    CASE e.kind = "empty" -> Boolean(TRUE)
      [] e.kind = "constant" -> e.value
      [] e.kind = "simple" -> Named(d, e.field)
      [] e.kind = "unary" ->
           IF e.oper = "exists" THEN Boolean(Named(d, e.of.field) # Null)
           ELSE Boolean(~Meaning(e.of, d).value)
      [] OTHER ->
           LET l == Meaning(e.left, d)
               r == Meaning(e.right, d)
               same == l = r \/ ({l.type, r.type} \subseteq Number /\ l.value = r.value)
           IN  Boolean(CASE e.oper = "==" -> same
                         [] e.oper = "!=" -> ~same
                         [] e.oper = "and" -> l.value /\ r.value
                         [] e.oper = "or" -> l.value \/ r.value
                         [] e.oper = "<" -> l.value < r.value
                         [] e.oper = ">" -> l.value > r.value
                         [] e.oper = "<=" -> l.value <= r.value
                         [] e.oper = ">=" -> l.value >= r.value)

\* Two numbers that the parsers gave one type
Comparable(l, r) == l.type = r.type /\ l.type \in Number

RECURSIVE Sound(_, _)
\* The filters that the code evaluates by their meaning.  The others: a field
\* that holds an object or an array, a path into what is no object, exists of
\* a path; two fields that are missing; numbers of two types; an order of what
\* are not numbers; "<" of equal numbers; "and" and "or" of what is not boolean.
Sound(e, d) ==
    CASE e.kind \in {"empty", "constant"} -> TRUE
      [] e.kind = "simple" ->
           /\ Named(d, e.field).type \notin {"object", "array"}
           /\ e.field = "age.in" => d.age.type \in {"object", "null"}
      [] e.kind = "unary" -> "age.in" \notin Fields(e)
      [] OTHER ->
           /\ Sound(e.left, d) /\ Sound(e.right, d)
           /\ LET l == Meaning(e.left, d)
                  r == Meaning(e.right, d)
              IN  CASE e.oper \in {"==", "!="} ->
                         l # Null /\ ({l.type, r.type} \subseteq Number => Comparable(l, r))
                    [] e.oper \in {"and", "or"} -> {l.type, r.type} = {"boolean"}
                    [] OTHER -> Comparable(l, r) /\ (e.oper = "<" => l.value # r.value)

-----------------------------------------------------------------------------
(* Properties.  Those about filters hold of any that could be asked next.   *)

\* The data file has a key that "age" begins with, of another type, and the
\* filter reads the value of "age" there: exists does not.
Shadowed(e, d) ==
    /\ e.kind # "unary"
    /\ d.age # Null /\ d.a # Null /\ d.a.type # d.age.type
    /\ Fields(e) \intersect {"age", "age.in"} # {}

\* A find gives the document when it is there and the filter means it, in the
\* log, by a scan and through the index alike, whatever filters were parsed
\* before.  The exceptions are a removed document through the index, which a
\* filter without fields takes as well after one on _id, and a field in the
\* data file that is read with the type of another.
FindAnswers ==
    \A e \in Filter :
        LET stale == place = "removed" /\ ThroughIndex(e)
        IN  doc # None /\ ~stale /\ Sound(e, doc) /\ ~(place = "data" /\ Shadowed(e, doc)) =>
              Results(e) = {Boolean(place # "removed" /\ Meaning(e, doc) = Boolean(TRUE))}

\* A document is found alike before and after it is flushed, also by filters
\* that are not sound, unless a field of the filter holds an object or is read
\* with the type of another.
SameAfterFlush ==
    doc # None => \A e \in Filter :
        \/ doc.age.type = "object" /\ "age" \in Fields(e)
        \/ Shadowed(e, doc)
        \/ \A d \in Buffered(doc) : Eval(e, d) = Eval(e, Logged(doc))

\* A comparison ends the server only when a field of it holds an object or an
\* array, or is read from the data file as a string, an object or an array that
\* it is not: no missing field and no mixture of types in a comparison does.
ComparisonsSurvive ==
    \A e \in Filter : e.kind # "binary" \/ e.oper \notin {"and", "or"} =>
        (Crash \in Results(e) =>
           /\ Fields(e) \intersect {"age", "age.in"} # {}
           /\ \/ doc.age.type \in {"object", "array"}
              \/ /\ place = "data" /\ Shadowed(e, doc)
                 /\ doc.a.type \in {"string", "object", "array"})

\* The number in a filter equals that number in a document, and no other,
\* except for INT_MAX, which is an int in a document and a long in a filter.
NumberMatches ==
    doc # None /\ doc.age.type \in Number => \A n \in 0..IntMax + 2 :
        LET e == Binary("==", Simple("age"), Constant(FilterNumber(n)))
        IN  {n, doc.age.value} # {IntMax} =>
              Eval(e, Logged(doc)) = Boolean(n = doc.age.value)

=============================================================================
