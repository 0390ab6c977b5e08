------------------------- MODULE MCFilterExpression -------------------------
(* FilterExpression for TLC: the filters that the grammar makes of a few     *)
(* operands, and a document for each type that a field may have.             *)
EXTENDS FilterExpression

MCAge ==
    {Null, Array, String("s"), Boolean(TRUE), Object(DocumentNumber(0))}
      \union {DocumentNumber(n) : n \in 0..IntMax + 1}

\* A field that is stored before "age", of each type and of none
MCA == {Null, Array, String("t"), Boolean(FALSE), Object(Null)}
         \union {DocumentNumber(n) : n \in {0, IntMax + 1}}

Exists == {Unary("exists", Simple(f)) : f \in Field}

Operand ==
    {Simple(f) : f \in Field} \union Exists \union {Unary("not", e) : e \in Exists}
      \union {Constant(FilterNumber(n)) : n \in 0..IntMax + 1}
      \union {Constant(Id), Constant(String("s")), Constant(Boolean(TRUE))}

Comparison ==
    {Binary(o, l, r) : o \in {"==", "!=", "<", "<=", ">", ">="}, l \in Operand, r \in Operand}

\* Operands of "and" and "or": some that are not boolean, and comparisons of a
\* field with a constant
Term ==
    {Simple("age"), Constant(Boolean(TRUE)), Unary("exists", Simple("age")),
     Binary("==", Simple("_id"), Constant(Id)), Binary("!=", Simple("_id"), Constant(Id)),
     Binary("==", Simple("age.in"), Constant(FilterNumber(0))),
     Binary(">=", Simple("age"), Constant(FilterNumber(0)))}

MCFilter ==
    {Empty} \union Operand \union Comparison
      \union {Binary(o, l, r) : o \in {"and", "or"}, l \in Term, r \in Term}
=============================================================================
