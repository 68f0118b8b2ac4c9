------------------------ MODULE MCIdentifierMutations ------------------------
(* Instances of IdentifierMutations for TLC. *)
EXTENDS IdentifierMutations

Name(kind, name) == <<NewString(0, 1, kind, "source", 0, name)>>
Relation(schema, name) ==
  <<NewString(0, 1, "relation", "source", 0, schema),
    NewString(0, 2, "relation", "source", 0, name)>>

\* UPDATE b SET a = 1 WHERE y IN (SELECT z FROM a)
Subquery == {Relation("", "b") \o Name("name", "a") \o Relation("", "a")}

\* That, UPDATE b SET a = 1 WHERE b.a > 1, and DELETE FROM s.a USING a.
AllSources == Subquery \cup
  {Relation("", "b") \o Name("qualifier", "b") \o Name("name", "a"),
   Relation("s", "a") \o Relation("", "a")}
=============================================================================
