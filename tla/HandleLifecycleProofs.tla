------------------------ MODULE HandleLifecycleProofs ------------------------
(***************************************************************************)
(* The properties of HandleLifecycle follow from one inductive invariant:  *)
(* between calls every form of the document that may become the authority  *)
(* holds it; within a list the handle is sound for the version its text    *)
(* has, pending edits lead from there to the document, and the stage tells *)
(* which of the two the rest of the list relies on.                        *)
(*                                                                         *)
(* A list that rebuilds a multi-table INSERT twice in a row takes text the *)
(* patches have left behind for the document (the run handle_rebuilds).    *)
(* The theorems about contents are for the lists that do not.              *)
(*                                                                         *)
(* First, what the operations of HandleContents preserve.  A handle is     *)
(* sound for a version when every form it keeps of the document, and       *)
(* everything derived from it that still counts, holds that version; an    *)
(* operation takes a sound handle to a sound handle, of the same version   *)
(* when it only moves between forms and of the new one when it commits a   *)
(* change.                                                                 *)
(***************************************************************************)
EXTENDS HandleLifecycle, TLAPS

Dirty(h) == "MULTI_INSERT_DIRTY" \in h.flags

\* The forms of the tree, and the one that is written.
CompactHolds(h, v) ==
  /\ h.representation = "COMPACT_INSERT"
  /\ h.compact = v /\ h.sql = v /\ h.edits = NULL
  /\ h.compactGeneration = h.generation /\ h.wire = NULL /\ h.ast = NULL
  /\ h.generation = 0 \/ h.complete
  /\ ~h.control /\ h.multi = NULL

TreeHolds(h, v) ==
  /\ h.compact = NULL
  /\ \/ /\ h.representation = "OWNED_AST" /\ h.ast = v
     \/ /\ h.representation = "LEGACY_AST" /\ h.ast = v
        /\ "AST_DIRTY" \notin h.flags => h.wire = v
     \/ /\ h.representation = "LEGACY_WIRE" /\ h.ast = NULL /\ h.wire = v
        /\ "AST_DIRTY" \notin h.flags

SourceHolds(h, v) ==
  /\ h.generation = 0 => h.edits = NULL
  /\ h.generation = 0 \/ h.complete => Edited(h.sql, h.edits) = v

DerivedHolds(h, v) ==
  /\ h.current # NULL => h.current.text = v
  /\ GraphIsCurrent(h) => /\ h.graph.text = v
                          /\ h.graph.certified # "no" => h.sql = v
  /\ h.binds # NULL /\ h.binds.generation = h.generation => h.binds.text = v
  /\ h.certificate = h.generation => h.sql = v

Sound(h, v) ==
  /\ h \in Handle
  /\ ~h.failed
  /\ SourceHolds(h, v)
  /\ h.multi \in {NULL, v}
  /\ h.multi # NULL => ~h.control
  /\ h.bound => h.ast # NULL
  /\ CompactHolds(h, v) \/ TreeHolds(h, v)
  /\ DerivedHolds(h, v)

-----------------------------------------------------------------------------
(* Parts of a handle that an operation leaves alone.                       *)

SameTree(g, h) ==
  /\ g.representation = h.representation /\ g.compact = h.compact
  /\ g.compactGeneration = h.compactGeneration /\ g.wire = h.wire /\ g.ast = h.ast
  /\ g.bound = h.bound

SameDerived(g, h) ==
  /\ g.current = h.current /\ g.graph = h.graph
  /\ g.binds = h.binds /\ g.certificate = h.certificate

SameSource(g, h) == g.sql = h.sql /\ g.edits = h.edits /\ g.complete = h.complete

SameDocument(g, h) == g.failed = h.failed /\ g.multi = h.multi /\ g.control = h.control

\* The handle is the same to its owner: only forms and derived data moved.
Kept(g, h) ==
  /\ g.generation = h.generation /\ SameSource(g, h) /\ SameDocument(g, h)
  /\ h.compact = NULL => g.compact = NULL

\* A handle is its fields.
LEMMA SameFields ==
    ASSUME NEW g \in Handle, NEW h \in Handle, SameTree(g, h), SameDerived(g, h),
           SameSource(g, h), SameDocument(g, h), g.generation = h.generation, g.flags = h.flags
    PROVE  g = h
BY DEF Handle, SameTree, SameDerived, SameSource, SameDocument

\* No derived data, as after InvalidateDerived and in a new handle.
NothingDerived(h) ==
  h.current = NULL /\ h.graph = NULL /\ h.binds = NULL /\ h.certificate = NULL

\* Invalidated data cannot be out of date.
LEMMA NothingDerivedHolds ==
    ASSUME NEW h \in Handle, NEW v, NothingDerived(h)
    PROVE  DerivedHolds(h, v)
<1>1. h.generation \in Nat
  BY DEF Handle
<1>2. h.generation # NULL
  BY <1>1, NullAssumption
<1>3. QED
  BY <1>2 DEF NothingDerived, DerivedHolds, GraphIsCurrent

\* What stays sound when only flags change, or how far the text is trusted.
LEMMA AdjustedIsSound ==
    ASSUME NEW h, NEW v \in Version, Sound(h, v), h.compact = NULL, h.edits = NULL,
           NEW g \in Handle, SameTree(g, h), SameDerived(g, h), SameDocument(g, h),
           g.sql = h.sql, g.edits = NULL, g.generation = h.generation,
           "AST_DIRTY" \in g.flags <=> "AST_DIRTY" \in h.flags,
           g.complete => h.sql = v
    PROVE  Sound(g, v)
<1>1. SourceHolds(g, v)
  BY DEF Sound, SourceHolds, Edited
<1>2. TreeHolds(g, v)
  <2>1. ~CompactHolds(h, v)
    BY NullAssumption DEF CompactHolds, Version, Garbage
  <2>2. QED
    BY <2>1 DEF Sound, TreeHolds, SameTree
<1>3. DerivedHolds(g, v)
  BY DEF Sound, DerivedHolds, GraphIsCurrent, SameDerived
<1>4. QED
  BY <1>1, <1>2, <1>3 DEF Sound, SameTree, SameDocument

-----------------------------------------------------------------------------
(* Moving between representations.                                         *)

\* sqlparser_handle_flush_ast packs the AST and forgets nothing else.
LEMMA FlushFacts ==
    ASSUME NEW h, NEW v \in Version, Sound(h, v)
    PROVE  /\ Sound(FlushAst(h), v) /\ Kept(FlushAst(h), h)
           /\ FlushAst(h).flags = h.flags \ {"AST_DIRTY"}
           /\ SameDerived(FlushAst(h), h)
<1>1. CASE "AST_DIRTY" \notin h.flags
  BY <1>1 DEF FlushAst, Kept, SameDerived, SameSource, SameDocument
<1>2. CASE "AST_DIRTY" \in h.flags
  <2> DEFINE w == IF h.representation = "OWNED_AST" THEN h.wire ELSE h.ast
             f == [h EXCEPT !.flags = h.flags \ {"AST_DIRTY"}, !.wire = w]
  <2>1. FlushAst(h) = f
    BY <1>2 DEF FlushAst
  <2>2. w \in VersionOrNull
    BY DEF Sound, Handle
  <2> HIDE DEF w
  <2>3. f \in Handle
    BY <2>2 DEF Sound, Handle
  <2>4. /\ f.flags = h.flags \ {"AST_DIRTY"} /\ f.wire = w /\ f.ast = h.ast
        /\ f.representation = h.representation /\ f.compact = h.compact
        /\ f.compactGeneration = h.compactGeneration /\ f.bound = h.bound
        /\ f.generation = h.generation
        /\ SameSource(f, h) /\ SameDocument(f, h) /\ SameDerived(f, h)
    BY DEF Sound, Handle, SameSource, SameDocument, SameDerived
  <2> HIDE DEF f
  <2>5. CompactHolds(f, v) \/ TreeHolds(f, v)
    BY <1>2, <2>4 DEF Sound, CompactHolds, TreeHolds, SameSource, SameDocument, w
  <2>6. SourceHolds(f, v) /\ DerivedHolds(f, v)
    BY <2>4 DEF Sound, SourceHolds, DerivedHolds, GraphIsCurrent, SameSource, SameDerived
  <2>7. QED
    BY <2>1, <2>3, <2>4, <2>5, <2>6 DEF Sound, Kept, SameDocument
<1>3. QED
  BY <1>1, <1>2

\* sqlparser_handle_clear_ast drops an adapter whose wire is the tree.
LEMMA ClearFacts ==
    ASSUME NEW h, NEW v \in Version, Sound(h, v), "AST_DIRTY" \notin h.flags,
           h.representation # "OWNED_AST"
    PROVE  /\ Sound(ClearAst(h), v) /\ Kept(ClearAst(h), h)
           /\ ClearAst(h).flags = h.flags /\ SameDerived(ClearAst(h), h)
<1>1. CASE h.ast = NULL
  <2> DEFINE k == [h EXCEPT !.bound = FALSE]
  <2>1. ClearAst(h) = k
    BY <1>1 DEF ClearAst
  <2>2. k \in Handle
    BY DEF Sound, Handle
  <2>3. /\ ~k.bound
        /\ k.representation = h.representation /\ k.compact = h.compact
        /\ k.compactGeneration = h.compactGeneration /\ k.wire = h.wire /\ k.ast = h.ast
        /\ k.flags = h.flags /\ k.generation = h.generation
        /\ SameDerived(k, h) /\ SameSource(k, h) /\ SameDocument(k, h)
    BY DEF Sound, Handle, SameDerived, SameSource, SameDocument
  <2> HIDE DEF k
  <2>4. Sound(k, v)
    BY <2>2, <2>3 DEF Sound, SourceHolds, CompactHolds, TreeHolds, DerivedHolds, GraphIsCurrent,
                      SameDerived, SameSource, SameDocument
  <2>5. QED
    BY <2>1, <2>3, <2>4 DEF Kept
<1>2. CASE h.ast # NULL
  <2> DEFINE g == [h EXCEPT !.ast = NULL, !.bound = FALSE, !.representation = "LEGACY_WIRE"]
  <2>1. /\ h.representation = "LEGACY_AST" /\ h.wire = v /\ h.compact = NULL
    BY <1>2 DEF Sound, CompactHolds, TreeHolds
  <2>2. ClearAst(h) = g
    BY <1>2, <2>1 DEF ClearAst, Sound, Handle
  <2>3. g \in Handle
    BY DEF Sound, Handle, VersionOrNull, Representations
  <2>4. /\ g.representation = "LEGACY_WIRE" /\ ~g.bound /\ g.ast = NULL /\ g.wire = h.wire
        /\ g.compact = h.compact /\ g.flags = h.flags /\ g.generation = h.generation
        /\ SameDerived(g, h) /\ SameSource(g, h) /\ SameDocument(g, h)
    BY DEF Sound, Handle, SameDerived, SameSource, SameDocument
  <2> HIDE DEF g
  <2>5. Sound(g, v)
    BY <2>1, <2>3, <2>4 DEF Sound, SourceHolds, TreeHolds, DerivedHolds, GraphIsCurrent,
                            SameDerived, SameSource, SameDocument
  <2>6. QED
    BY <2>1, <2>2, <2>4, <2>5 DEF Kept
<1>3. QED
  BY <1>1, <1>2

\* sqlparser_handle_discard_ast_adapter keeps an owned AST.
LEMMA DiscardFacts ==
    ASSUME NEW h, NEW v \in Version, Sound(h, v), "AST_DIRTY" \notin h.flags
    PROVE  /\ Sound(DiscardAstAdapter(h), v) /\ Kept(DiscardAstAdapter(h), h)
           /\ DiscardAstAdapter(h).flags = h.flags /\ SameDerived(DiscardAstAdapter(h), h)
<1>1. CASE h.representation = "OWNED_AST"
  BY <1>1 DEF DiscardAstAdapter, Kept, SameSource, SameDocument, SameDerived
<1>2. CASE h.representation # "OWNED_AST"
  BY <1>2, ClearFacts DEF DiscardAstAdapter
<1>3. QED
  BY <1>1, <1>2

\* sqlparser_handle_promote_compact parses the text that the compact form is of.
LEMMA PromoteFacts ==
    ASSUME NEW h, NEW v \in Version, Sound(h, v)
    PROVE  /\ Sound(PromoteCompact(h), v) /\ Kept(PromoteCompact(h), h)
           /\ PromoteCompact(h).flags = h.flags /\ PromoteCompact(h).compact = NULL
           /\ SameDerived(PromoteCompact(h), h)
           /\ h.compact = NULL => PromoteCompact(h) = h
<1>1. CASE h.compact = NULL
  BY <1>1 DEF PromoteCompact, Kept, SameSource, SameDocument, SameDerived
<1>2. CASE h.compact # NULL
  <2> DEFINE g == [h EXCEPT !.ast = h.sql, !.compact = NULL, !.bound = FALSE,
                            !.representation = "OWNED_AST"]
  <2>1. PromoteCompact(h) = g
    BY <1>2 DEF PromoteCompact
  <2>2. h.sql = v
    BY <1>2 DEF Sound, CompactHolds, TreeHolds
  <2>3. g \in Handle
    BY DEF Sound, Handle, VersionOrNull, Representations
  <2>4. /\ g.representation = "OWNED_AST" /\ ~g.bound /\ g.ast = h.sql
        /\ g.compact = NULL /\ g.flags = h.flags /\ g.generation = h.generation
        /\ SameDerived(g, h) /\ SameSource(g, h) /\ SameDocument(g, h)
    BY DEF Sound, Handle, SameDerived, SameSource, SameDocument
  <2> HIDE DEF g
  <2>5. Sound(g, v)
    BY <2>2, <2>3, <2>4 DEF Sound, SourceHolds, TreeHolds, DerivedHolds, GraphIsCurrent,
                            SameDerived, SameSource, SameDocument
  <2>6. QED
    BY <1>2, <2>1, <2>4, <2>5 DEF Kept
<1>3. QED
  BY <1>1, <1>2

\* sqlparser_handle_ensure_ast brings the tree from whatever form holds it.
LEMMA EnsureAstFacts ==
    ASSUME NEW h, NEW v \in Version, Sound(h, v)
    PROVE  /\ Sound(EnsureAst(h), v) /\ Kept(EnsureAst(h), h)
           /\ EnsureAst(h).flags = h.flags /\ EnsureAst(h).compact = NULL
           /\ EnsureAst(h).ast = v /\ SameDerived(EnsureAst(h), h)
<1> DEFINE p == PromoteCompact(h)
           a == [p EXCEPT !.ast = p.wire, !.bound = TRUE, !.representation = "LEGACY_AST"]
           b == [p EXCEPT !.bound = TRUE]
<1>1. /\ Sound(p, v) /\ Kept(p, h) /\ p.flags = h.flags /\ p.compact = NULL
      /\ SameDerived(p, h)
  BY PromoteFacts
<1>2. EnsureAst(h) = IF p.ast = NULL THEN a ELSE b
  BY DEF EnsureAst
<1> HIDE DEF p
<1>3. v # NULL
  BY NullAssumption DEF Version, Garbage
<1>4. TreeHolds(p, v)
  BY <1>1, <1>3 DEF Sound, CompactHolds
<1>5. CASE p.ast = NULL
  <2>1. p.wire = v /\ "AST_DIRTY" \notin p.flags
    BY <1>3, <1>4, <1>5 DEF TreeHolds
  <2>2. a \in Handle
    <3>1. p \in Handle /\ p.wire \in VersionOrNull /\ "LEGACY_AST" \in Representations
      BY <1>1 DEF Sound, Handle, Representations
    <3>2. QED
      BY <3>1 DEF Handle
  <2>3. /\ a.representation = "LEGACY_AST" /\ a.ast = p.wire /\ a.wire = p.wire
        /\ a.compact = p.compact /\ a.flags = p.flags /\ a.generation = p.generation
        /\ SameDerived(a, p) /\ SameSource(a, p) /\ SameDocument(a, p)
    BY <1>1 DEF Sound, Handle, SameDerived, SameSource, SameDocument
  <2> HIDE DEF a
  <2>4. Sound(a, v)
    BY <1>1, <1>3, <2>1, <2>2, <2>3
       DEF Sound, SourceHolds, TreeHolds, DerivedHolds, GraphIsCurrent,
           SameDerived, SameSource, SameDocument
  <2>5. QED
    BY <1>1, <1>2, <1>5, <2>1, <2>3, <2>4 DEF Kept, SameDerived, SameSource, SameDocument
<1>6. CASE p.ast # NULL
  <2>1. p.ast = v
    BY <1>4, <1>6 DEF TreeHolds
  <2>2. b \in Handle
    BY <1>1, ZenonT(60) DEF Sound, Handle
  <2>3. /\ b.representation = p.representation /\ b.ast = p.ast /\ b.wire = p.wire
        /\ b.compact = p.compact /\ b.flags = p.flags /\ b.generation = p.generation
        /\ SameDerived(b, p) /\ SameSource(b, p) /\ SameDocument(b, p)
    BY <1>1 DEF Sound, Handle, SameDerived, SameSource, SameDocument
  <2> HIDE DEF b
  <2>4. Sound(b, v)
    BY <1>1, <1>4, <1>6, <2>2, <2>3
       DEF Sound, SourceHolds, TreeHolds, DerivedHolds, GraphIsCurrent,
           SameDerived, SameSource, SameDocument
  <2>5. QED
    BY <1>1, <1>2, <1>6, <2>1, <2>3, <2>4 DEF Kept, SameDerived, SameSource, SameDocument
<1>7. QED
  BY <1>5, <1>6

\* A failed load leaves the document readable: an owned AST or the wire stays.
LEMMA EnsureAstFailedFacts ==
    ASSUME NEW h, NEW v \in Version, Sound(h, v), "AST_DIRTY" \notin h.flags
    PROVE  /\ Sound(EnsureAstFailed(h), v) /\ Kept(EnsureAstFailed(h), h)
           /\ EnsureAstFailed(h).flags = h.flags
<1> DEFINE p == PromoteCompact(h)
           b == [p EXCEPT !.bound = FALSE]
<1>1. Sound(p, v) /\ Kept(p, h) /\ p.flags = h.flags
  BY PromoteFacts
<1>2. EnsureAstFailed(h) = IF p.representation = "OWNED_AST" THEN b ELSE ClearAst(p)
  BY DEF EnsureAstFailed
<1> HIDE DEF p
<1>3. CASE p.representation # "OWNED_AST"
  <2>1. Sound(ClearAst(p), v) /\ Kept(ClearAst(p), p) /\ ClearAst(p).flags = p.flags
    BY <1>1, <1>3, ClearFacts
  <2>2. QED
    BY <1>1, <1>2, <1>3, <2>1 DEF Kept, SameSource, SameDocument
<1>4. CASE p.representation = "OWNED_AST"
  <2>1. b \in Handle
    BY <1>1 DEF Sound, Handle
  <2>2. /\ b.representation = p.representation /\ b.ast = p.ast /\ b.wire = p.wire
        /\ b.compact = p.compact /\ b.compactGeneration = p.compactGeneration
        /\ b.flags = p.flags /\ b.generation = p.generation /\ ~b.bound
        /\ SameDerived(b, p) /\ SameSource(b, p) /\ SameDocument(b, p)
    BY <1>1 DEF Sound, Handle, SameDerived, SameSource, SameDocument
  <2> HIDE DEF b
  <2>3. Sound(b, v)
    BY <1>1, <1>4, <2>1, <2>2
       DEF Sound, SourceHolds, CompactHolds, TreeHolds, DerivedHolds, GraphIsCurrent,
           SameDerived, SameSource, SameDocument
  <2>4. QED
    BY <1>1, <1>2, <1>4, <2>2, <2>3 DEF Kept, SameSource, SameDocument
<1>5. QED
  BY <1>3, <1>4

-----------------------------------------------------------------------------
(* Rendering.                                                              *)

\* A flushed handle that is not its text renders the tree it holds.
LEMMA RenderedTreeHolds ==
    ASSUME NEW h, NEW v \in Version, Sound(h, v), "AST_DIRTY" \notin h.flags,
           h.generation # 0, ~h.complete
    PROVE  RenderedTree(h) = v
<1>1. TreeHolds(h, v) /\ h.multi \in {NULL, v}
  BY DEF Sound, CompactHolds
<1>2. QED
  BY <1>1 DEF RenderedTree, TreeHolds

\* Rendering control units loads the AST and nothing else.
LEMMA RenderingFacts ==
    ASSUME NEW h, NEW v \in Version, Sound(h, v)
    PROVE  /\ Sound(RenderingHandle(h), v) /\ Kept(RenderingHandle(h), h)
           /\ RenderingHandle(h).flags = h.flags
           /\ SameDerived(RenderingHandle(h), h)
<1>1. CASE h.control \/ h.representation = "OWNED_AST"
  BY <1>1, EnsureAstFacts DEF RenderingHandle
<1>2. CASE ~(h.control \/ h.representation = "OWNED_AST")
  BY <1>2 DEF RenderingHandle, Kept, SameSource, SameDocument, SameDerived
<1>3. QED
  BY <1>1, <1>2

\* The handle once its regenerated SQL, or its graph, is stored.
WithCurrent(h, v, parser) == [h EXCEPT !.current = [text |-> v, parser |-> parser]]
WithGraph(h, v, certified) ==
  [h EXCEPT !.graph = [generation |-> h.generation, text |-> v, certified |-> certified]]

\* The regenerated SQL is the only thing that changes.
LEMMA WithCurrentIsSound ==
    ASSUME NEW h, NEW v \in Version, Sound(h, v), NEW parser \in BOOLEAN
    PROVE  LET c == WithCurrent(h, v, parser)
           IN  /\ Sound(c, v) /\ Kept(c, h) /\ c.flags = h.flags
               /\ c.current.text = v /\ c.current # NULL
               /\ c.graph = h.graph /\ c.binds = h.binds
<1> DEFINE c == WithCurrent(h, v, parser)
           sql == [text |-> v, parser |-> parser]
<1>1. sql \in [text : Version, parser : BOOLEAN] /\ sql.text = v
  OBVIOUS
<1>2. sql # NULL
  BY <1>1, NullAssumption DEF RegeneratedSql
<1> HIDE DEF sql
<1>3. c \in Handle
  BY <1>1 DEF Sound, Handle, RegeneratedSql, sql, WithCurrent
<1>4. /\ c.current = sql /\ c.graph = h.graph /\ c.binds = h.binds
      /\ c.certificate = h.certificate /\ c.flags = h.flags /\ c.generation = h.generation
      /\ SameTree(c, h) /\ SameSource(c, h) /\ SameDocument(c, h)
  BY DEF Sound, Handle, SameTree, SameSource, SameDocument, sql, WithCurrent
<1> HIDE DEF c
<1>5. DerivedHolds(c, v)
  BY <1>1, <1>4 DEF Sound, DerivedHolds, GraphIsCurrent, SameSource
<1>6. QED
  BY <1>1, <1>2, <1>3, <1>4, <1>5
     DEF Sound, SourceHolds, CompactHolds, TreeHolds, SameTree, SameSource, SameDocument, Kept, c

\* sqlparser_ensure_current_sql_text regenerates the document, whichever form is
\* the authority.
LEMMA EnsureCurrentFacts ==
    ASSUME NEW h, NEW v \in Version, Sound(h, v)
    PROVE  /\ Sound(EnsureCurrentSql(h), v) /\ Kept(EnsureCurrentSql(h), h)
           /\ EnsureCurrentSql(h).flags = h.flags \ {"AST_DIRTY"}
           /\ EnsureCurrentSql(h).graph = h.graph /\ EnsureCurrentSql(h).binds = h.binds
           /\ h.generation # 0 => /\ EnsureCurrentSql(h).current # NULL
                                  /\ EnsureCurrentSql(h).current.text = v
<1> DEFINE f == FlushAst(h)
           usable == f.current # NULL /\ (f.complete \/ f.control \/ f.current.parser)
           r == RenderingHandle(f)
           c1 == [f EXCEPT !.current = [text |-> Edited(f.sql, f.edits), parser |-> FALSE]]
           c2 == [r EXCEPT !.current = [text |-> RenderedTree(f), parser |-> ~f.control]]
<1>1. /\ Sound(f, v) /\ Kept(f, h) /\ f.flags = h.flags \ {"AST_DIRTY"}
      /\ SameDerived(f, h)
  BY FlushFacts
<1>2. EnsureCurrentSql(h) = IF f.generation = 0 \/ usable THEN f
                            ELSE IF f.complete THEN c1 ELSE c2
  BY DEF EnsureCurrentSql
<1> HIDE DEF f
<1>3. CASE f.generation = 0 \/ usable
  BY <1>1, <1>2, <1>3 DEF Sound, DerivedHolds, Kept, SameDerived
<1>4. CASE ~(f.generation = 0 \/ usable) /\ f.complete
  <2>1. c1 = WithCurrent(f, v, FALSE)
    BY <1>1, <1>4 DEF Sound, SourceHolds, WithCurrent
  <2> HIDE DEF c1, usable
  <2>2. /\ Sound(c1, v) /\ Kept(c1, f) /\ c1.flags = f.flags
        /\ c1.current.text = v /\ c1.current # NULL
        /\ c1.graph = f.graph /\ c1.binds = f.binds
    BY <1>1, <2>1, WithCurrentIsSound
  <2>3. QED
    BY <1>1, <1>2, <1>4, <2>2 DEF Kept, SameDerived, SameSource, SameDocument
<1>5. CASE ~(f.generation = 0 \/ usable) /\ ~f.complete
  <2>1. /\ Sound(r, v) /\ Kept(r, f) /\ r.flags = f.flags /\ SameDerived(r, f)
    BY <1>1, RenderingFacts
  <2> HIDE DEF r
  <2> DEFINE parser == ~f.control
  <2>2. c2 = WithCurrent(r, v, parser)
    BY <1>1, <1>5, RenderedTreeHolds DEF WithCurrent
  <2>3. parser \in BOOLEAN
    BY <1>1 DEF Sound, Handle
  <2> HIDE DEF c2, usable, parser
  <2>4. /\ Sound(c2, v) /\ Kept(c2, r) /\ c2.flags = r.flags
        /\ c2.current.text = v /\ c2.current # NULL
        /\ c2.graph = r.graph /\ c2.binds = r.binds
    BY <2>1, <2>2, <2>3, WithCurrentIsSound
  <2>5. QED
    BY <1>1, <1>2, <1>5, <2>1, <2>4 DEF Kept, SameDerived, SameSource, SameDocument
<1>6. QED
  BY <1>3, <1>4, <1>5

\* sqlparser_deparse_current returns the document.
LEMMA DeparseFacts ==
    ASSUME NEW h, NEW v \in Version, Sound(h, v)
    PROVE  /\ DeparseText(h) = v
           /\ Sound(DeparseHandle(h), v) /\ Kept(DeparseHandle(h), h)
           /\ DeparseHandle(h).flags = h.flags \ {"AST_DIRTY"}
<1> DEFINE f == FlushAst(h)
           c == EnsureCurrentSql(f)
<1>1. Sound(f, v) /\ Kept(f, h) /\ f.flags = h.flags \ {"AST_DIRTY"}
  BY FlushFacts
<1>2. /\ DeparseText(h) = IF f.generation = 0 THEN f.sql
                          ELSE IF UsesCurrentSql(f) THEN c.current.text
                          ELSE IF f.complete THEN Edited(f.sql, f.edits)
                          ELSE RenderedTree(f)
      /\ DeparseHandle(h) = IF UsesCurrentSql(f) THEN c
                            ELSE IF f.generation = 0 \/ f.complete THEN f
                            ELSE RenderingHandle(f)
  BY DEF DeparseText, DeparseHandle
<1> HIDE DEF f
<1>3. CASE UsesCurrentSql(f)
  <2>1. f.generation # 0
    BY <1>3 DEF UsesCurrentSql
  <2>2. /\ Sound(c, v) /\ Kept(c, f) /\ c.flags = f.flags \ {"AST_DIRTY"} /\ c.current.text = v
    BY <1>1, <2>1, EnsureCurrentFacts
  <2> HIDE DEF c
  <2>3. QED
    BY <1>1, <1>2, <1>3, <2>1, <2>2 DEF Kept, SameSource, SameDocument
<1>4. CASE ~UsesCurrentSql(f) /\ (f.generation = 0 \/ f.complete)
  BY <1>1, <1>2, <1>4 DEF Sound, SourceHolds, Edited
<1>5. CASE ~UsesCurrentSql(f) /\ ~(f.generation = 0 \/ f.complete)
  <2>1. RenderedTree(f) = v
    BY <1>1, <1>5, RenderedTreeHolds
  <2>2. /\ Sound(RenderingHandle(f), v) /\ Kept(RenderingHandle(f), f)
        /\ RenderingHandle(f).flags = f.flags
    BY <1>1, RenderingFacts
  <2>3. QED
    BY <1>1, <1>2, <1>5, <2>1, <2>2 DEF Kept, SameSource, SameDocument
<1>6. QED
  BY <1>3, <1>4, <1>5

-----------------------------------------------------------------------------
(* Derived data.                                                           *)

\* A graph of the document, stamped with the handle's generation, is sound; a
\* certified one also needs the source text to be the document.
LEMMA WithGraphIsSound ==
    ASSUME NEW h, NEW v \in Version, Sound(h, v), NEW certified \in {"no", "wire", "compact"},
           certified # "no" => h.sql = v
    PROVE  LET g == WithGraph(h, v, certified)
           IN  /\ Sound(g, v) /\ Kept(g, h) /\ g.flags = h.flags
               /\ g.graph # NULL /\ g.graph.text = v
<1> DEFINE g == WithGraph(h, v, certified)
           graph == [generation |-> h.generation, text |-> v, certified |-> certified]
<1>1. /\ graph \in CachedGraph /\ graph.text = v /\ graph.certified = certified
  BY DEF Sound, Handle, CachedGraph
<1>2. graph # NULL
  BY <1>1, NullAssumption
<1> HIDE DEF graph
<1>3. g \in Handle
  BY <1>1 DEF Sound, Handle, graph, WithGraph
<1>4. /\ g.graph = graph /\ g.current = h.current /\ g.binds = h.binds
      /\ g.certificate = h.certificate /\ g.flags = h.flags /\ g.generation = h.generation
      /\ SameTree(g, h) /\ SameSource(g, h) /\ SameDocument(g, h)
  BY DEF Sound, Handle, SameTree, SameSource, SameDocument, graph, WithGraph
<1> HIDE DEF g
<1>5. DerivedHolds(g, v)
  BY <1>1, <1>4 DEF Sound, DerivedHolds, GraphIsCurrent, SameSource
<1>6. QED
  BY <1>1, <1>2, <1>3, <1>4, <1>5
     DEF Sound, SourceHolds, CompactHolds, TreeHolds, SameTree, SameSource, SameDocument, Kept, g

\* sqlparser_query_graph_ensure: kept, certified or built from the AST, the graph
\* it leaves is of the document.
LEMMA GraphReadsFacts ==
    ASSUME NEW h, NEW v \in Version, Sound(h, v), NEW g \in GraphReads(h)
    PROVE  /\ Sound(g, v) /\ Kept(g, h) /\ g.flags = h.flags
           /\ g.graph # NULL /\ g.graph.text = v
<1>1. CASE GraphIsCurrent(h)
  <2>1. g = h
    BY <1>1 DEF GraphReads
  <2>2. QED
    BY <1>1, <2>1 DEF Sound, DerivedHolds, GraphIsCurrent, Kept, SameSource, SameDocument
<1>2. CASE CanCertify(h) /\ g = CertifiedGraph(h)
  <2> DEFINE certified == IF h.compact # NULL THEN "compact" ELSE "wire"
  <2>1. h.sql = v /\ (IF h.compact # NULL THEN h.compact ELSE h.wire) = v
    BY <1>2, NullAssumption
       DEF CanCertify, Sound, CompactHolds, TreeHolds, SourceHolds, Edited, Version, Garbage
  <2>2. g = WithGraph(h, v, certified)
    BY <1>2, <2>1 DEF CertifiedGraph, WithGraph
  <2>3. certified \in {"no", "wire", "compact"}
    OBVIOUS
  <2> HIDE DEF certified
  <2>4. QED
    BY <2>1, <2>2, <2>3, WithGraphIsSound
<1>3. CASE g = AstGraph(h)
  <2> DEFINE a == EnsureAst(h)
  <2>1. Sound(a, v) /\ Kept(a, h) /\ a.flags = h.flags /\ a.ast = v
    BY EnsureAstFacts
  <2>2. g = [a EXCEPT !.graph = [generation |-> h.generation, text |-> a.ast, certified |-> "no"]]
    BY <1>3 DEF AstGraph
  <2> HIDE DEF a
  <2>3. g = WithGraph(a, v, "no")
    BY <2>1, <2>2 DEF Kept, WithGraph
  <2>4. /\ Sound(g, v) /\ Kept(g, a) /\ g.flags = a.flags
        /\ g.graph # NULL /\ g.graph.text = v
    BY <2>1, <2>3, WithGraphIsSound
  <2>5. QED
    BY <2>1, <2>4 DEF Kept, SameSource, SameDocument
<1>4. QED
  BY <1>1, <1>2, <1>3 DEF GraphReads

\* sqlparser_handle_ensure_bind_occurrences scans the document.
LEMMA EnsureBindsFacts ==
    ASSUME NEW h, NEW v \in Version, Sound(h, v)
    PROVE  /\ Sound(EnsureBinds(h), v) /\ Kept(EnsureBinds(h), h)
           /\ EnsureBinds(h).flags \in {h.flags, h.flags \ {"AST_DIRTY"}}
           /\ EnsureBinds(h).binds.text = v
<1> DEFINE c == EnsureCurrentSql(h)
           kept == h.binds # NULL /\ h.binds.generation = h.generation
           binds == [generation |-> h.generation,
                     text |-> IF c.generation = 0 THEN c.sql ELSE c.current.text]
           b == [c EXCEPT !.binds = binds]
<1>1. /\ Sound(c, v) /\ Kept(c, h) /\ c.flags = h.flags \ {"AST_DIRTY"}
      /\ c.graph = h.graph
      /\ h.generation # 0 => c.current.text = v
  BY EnsureCurrentFacts
<1>2. EnsureBinds(h) = IF kept THEN h ELSE b
  BY DEF EnsureBinds
<1> HIDE DEF c
<1>3. CASE kept
  BY <1>2, <1>3 DEF Sound, DerivedHolds, Kept, SameSource, SameDocument
<1>4. CASE ~kept
  <2>1. binds.text = v /\ binds \in BindOccurrences
    <3>1. (IF c.generation = 0 THEN c.sql ELSE c.current.text) = v
      BY <1>1 DEF Sound, SourceHolds, Edited, Kept
    <3>2. h.generation \in Nat
      BY DEF Sound, Handle
    <3>3. QED
      BY <3>1, <3>2 DEF BindOccurrences
  <2> HIDE DEF binds
  <2>2. b \in Handle
    BY <1>1, <2>1 DEF Sound, Handle
  <2>3. /\ b.binds = binds /\ b.current = c.current /\ b.graph = c.graph
        /\ b.certificate = c.certificate /\ b.flags = c.flags /\ b.generation = c.generation
        /\ SameTree(b, c) /\ SameSource(b, c) /\ SameDocument(b, c)
    BY <1>1 DEF Sound, Handle, SameTree, SameSource, SameDocument
  <2> HIDE DEF b, kept
  <2>4. Sound(b, v)
    <3>1. DerivedHolds(b, v)
      BY <1>1, <2>1, <2>3 DEF Sound, DerivedHolds, GraphIsCurrent, SameSource
    <3>2. QED
      BY <1>1, <2>2, <2>3, <3>1
         DEF Sound, SourceHolds, CompactHolds, TreeHolds, SameTree, SameSource, SameDocument
  <2>5. QED
    BY <1>1, <1>2, <1>4, <2>1, <2>3, <2>4 DEF Kept, SameTree, SameSource, SameDocument
<1>5. QED
  BY <1>3, <1>4

-----------------------------------------------------------------------------
(* Commits.                                                                *)

\* The certificate of a multi-table INSERT is only as good as its text.
LEMMA CertifyFacts ==
    ASSUME NEW h, NEW v \in Version, Sound(h, v), h.multi # NULL => h.sql = v
    PROVE  LET g == CertifySource(h)
           IN  /\ Sound(g, v) /\ SameTree(g, h) /\ SameSource(g, h) /\ SameDocument(g, h)
               /\ g.generation = h.generation /\ g.flags = h.flags
<1> DEFINE g == CertifySource(h)
           certificate == IF h.multi # NULL THEN h.generation ELSE NULL
<1>1. g = [h EXCEPT !.certificate = certificate]
  BY DEF CertifySource
<1>2. /\ certificate \in Nat \cup {NULL}
      /\ certificate = h.generation => h.sql = v
  BY NullAssumption DEF Sound, Handle
<1> HIDE DEF g, certificate
<1>3. g \in Handle
  BY <1>1, <1>2 DEF Sound, Handle
<1>4. /\ g.current = h.current /\ g.graph = h.graph /\ g.binds = h.binds
      /\ g.certificate = certificate /\ g.flags = h.flags /\ g.generation = h.generation
      /\ SameTree(g, h) /\ SameSource(g, h) /\ SameDocument(g, h)
  BY <1>1 DEF Sound, Handle, SameTree, SameSource, SameDocument
<1>5. DerivedHolds(g, v)
  BY <1>2, <1>4 DEF Sound, DerivedHolds, GraphIsCurrent, SameSource
<1>6. Sound(g, v)
  BY <1>3, <1>4, <1>5
     DEF Sound, SourceHolds, CompactHolds, TreeHolds, SameTree, SameSource, SameDocument
<1>7. QED
  BY <1>4, <1>6 DEF g

\* sqlparser_handle_invalidate_derived: what is dropped cannot be served.
LEMMA InvalidateFacts ==
    ASSUME NEW h \in Handle
    PROVE  LET g == InvalidateDerived(h)
           IN  /\ g \in Handle /\ NothingDerived(g)
               /\ SameTree(g, h) /\ SameSource(g, h) /\ SameDocument(g, h)
               /\ g.generation = h.generation /\ g.flags = h.flags
<1> DEFINE g == InvalidateDerived(h)
<1>1. g = [h EXCEPT !.current = NULL, !.graph = NULL, !.binds = NULL, !.certificate = NULL]
  BY DEF InvalidateDerived
<1> HIDE DEF g
<1>2. g \in Handle
  BY <1>1 DEF Handle
<1>3. /\ NothingDerived(g) /\ g.flags = h.flags /\ g.generation = h.generation
      /\ SameTree(g, h) /\ SameSource(g, h) /\ SameDocument(g, h)
  BY <1>1 DEF Handle, NothingDerived, SameTree, SameSource, SameDocument
<1>4. QED
  BY <1>2, <1>3 DEF g

\* sqlparser_parse leaves one text and one form of its tree.
LEMMA ParsedFacts ==
    ASSUME NEW v \in Version, NEW r \in {"LEGACY_WIRE", "OWNED_AST", "COMPACT_INSERT"},
           NEW multi \in BOOLEAN, NEW control \in BOOLEAN,
           multi => ~control, r = "COMPACT_INSERT" => ~multi /\ ~control
    PROVE  LET p == Parsed(v, r, multi, control)
           IN  /\ Sound(p, v) /\ p.generation = 0 /\ p.representation = r
               /\ p.sql = v /\ p.edits = NULL /\ p.flags = {}
               /\ p.compact = (IF r = "COMPACT_INSERT" THEN v ELSE NULL)
               /\ p.multi = (IF multi THEN v ELSE NULL) /\ p.control = control
               /\ p.current = NULL /\ p.graph = NULL /\ p.binds = NULL
<1> DEFINE p == Parsed(v, r, multi, control)
           compact == IF r = "COMPACT_INSERT" THEN v ELSE NULL
           wire == IF r = "LEGACY_WIRE" THEN v ELSE NULL
           ast == IF r = "OWNED_AST" THEN v ELSE NULL
           state == IF multi THEN v ELSE NULL
           certificate == IF multi THEN 0 ELSE NULL
<1>1. p = [failed |-> FALSE, generation |-> 0, representation |-> r,
           compact |-> compact, compactGeneration |-> 0, wire |-> wire, ast |-> ast,
           bound |-> FALSE, multi |-> state, control |-> control, sql |-> v,
           edits |-> NULL, complete |-> FALSE, flags |-> {}, current |-> NULL,
           graph |-> NULL, binds |-> NULL, certificate |-> certificate]
  BY DEF Parsed
<1>2. /\ compact \in VersionOrNull /\ wire \in VersionOrNull /\ ast \in VersionOrNull
      /\ state \in VersionOrNull /\ v \in VersionOrNull /\ NULL \in VersionOrNull
      /\ certificate \in Nat \cup {NULL} /\ r \in Representations /\ {} \in SUBSET Flags
  BY DEF VersionOrNull, Representations
<1>3. v # NULL
  BY NullAssumption DEF Version, Garbage
<1> HIDE DEF p, compact, wire, ast, state, certificate
<1>4. p \in Handle
  BY <1>1, <1>2 DEF Handle
<1>5. /\ p.failed = FALSE /\ p.generation = 0 /\ p.representation = r
      /\ p.compact = compact /\ p.compactGeneration = 0 /\ p.wire = wire /\ p.ast = ast
      /\ p.bound = FALSE /\ p.multi = state /\ p.control = control /\ p.sql = v
      /\ p.edits = NULL /\ p.complete = FALSE /\ p.flags = {} /\ p.current = NULL
      /\ p.graph = NULL /\ p.binds = NULL /\ p.certificate = certificate
  BY <1>1
<1>6. CompactHolds(p, v) \/ TreeHolds(p, v)
  BY <1>5 DEF CompactHolds, TreeHolds, compact, wire, ast, state
<1>7. SourceHolds(p, v) /\ DerivedHolds(p, v)
  BY <1>5 DEF SourceHolds, Edited, DerivedHolds, GraphIsCurrent
<1>8. Sound(p, v)
  BY <1>4, <1>5, <1>6, <1>7 DEF Sound, state
<1>9. QED
  BY <1>5, <1>8 DEF p, compact, state

\* A text parsed in full is the document, in the form the parser chose.
LEMMA ReparseFacts ==
    ASSUME NEW h \in Handle, h.multi # NULL => ~h.control, NEW v \in Version,
           NEW r \in {"LEGACY_WIRE", "OWNED_AST"}
    PROVE  LET g == Reparse(h, v, r)
           IN  /\ Sound(g, v) /\ g.generation = h.generation + 1
               /\ g.sql = v /\ g.edits = NULL /\ g.complete /\ g.compact = NULL
               /\ g.multi = (IF h.multi # NULL THEN v ELSE NULL)
               /\ g.flags = h.flags \cap {"ACTIVE", "IN_PLACE"}
<1> DEFINE isMulti == h.multi # NULL
           flags == h.flags \cap {"ACTIVE", "IN_PLACE"}
           p == Parsed(v, r, isMulti, h.control)
           q == [p EXCEPT !.generation = h.generation + 1, !.complete = TRUE, !.flags = flags]
<1>1. Reparse(h, v, r) = CertifySource(q)
  BY DEF Reparse
<1>2. /\ Sound(p, v) /\ p.generation = 0 /\ p.representation = r
      /\ p.sql = v /\ p.edits = NULL /\ p.flags = {} /\ p.compact = NULL
      /\ p.multi = (IF isMulti THEN v ELSE NULL)
      /\ p.current = NULL /\ p.graph = NULL /\ p.binds = NULL
  <2>1. isMulti \in BOOLEAN /\ h.control \in BOOLEAN /\ (isMulti => ~h.control)
    BY DEF Handle
  <2> HIDE DEF isMulti
  <2>2. QED
    BY <2>1, ParsedFacts
<1>3. /\ h.generation + 1 \in Nat /\ h.generation + 1 # 0 /\ flags \in SUBSET Flags
      /\ "AST_DIRTY" \notin flags
  BY DEF Handle
<1> HIDE DEF p, isMulti, flags
<1>4. q \in Handle
  BY <1>2, <1>3, ZenonT(60) DEF Sound, Handle
<1>5. /\ SameTree(q, p) /\ SameDocument(q, p) /\ q.sql = p.sql /\ q.edits = p.edits
      /\ q.current = p.current /\ q.graph = p.graph /\ q.binds = p.binds
      /\ q.certificate = p.certificate
      /\ q.generation = h.generation + 1 /\ q.complete /\ q.flags = flags
  BY <1>2 DEF Sound, Handle, SameTree, SameDocument
<1> HIDE DEF q
<1>6. Sound(q, v)
  <2>1. SourceHolds(q, v)
    BY <1>2, <1>3, <1>5 DEF SourceHolds, Edited
  <2>2. v # NULL
    BY NullAssumption DEF Version, Garbage
  <2>3. TreeHolds(q, v)
    BY <1>2, <1>3, <1>5, <2>2 DEF Sound, CompactHolds, TreeHolds, SameTree
  <2>4. DerivedHolds(q, v)
    BY <1>2, <1>5 DEF DerivedHolds, GraphIsCurrent
  <2>5. QED
    BY <1>2, <1>4, <1>5, <2>1, <2>3, <2>4 DEF Sound, SameTree, SameDocument
<1>7. LET g == CertifySource(q)
      IN  /\ Sound(g, v) /\ SameTree(g, q) /\ SameSource(g, q) /\ SameDocument(g, q)
          /\ g.generation = q.generation /\ g.flags = q.flags
  BY <1>2, <1>5, <1>6, CertifyFacts
<1>8. QED
  BY <1>1, <1>2, <1>5, <1>7 DEF SameTree, SameSource, SameDocument, isMulti, flags

\* sqlparser_handle_release_contents leaves nothing but the failure.
LEMMA ReleasedFacts ==
    ASSUME NEW h \in Handle
    PROVE  LET g == Released(h)
           IN  /\ g \in Handle /\ g.failed = h.failed /\ g.generation = 0
               /\ g.representation = "EMPTY" /\ g.compact = NULL /\ g.compactGeneration = 0
               /\ g.wire = NULL /\ g.ast = NULL /\ ~g.bound /\ g.multi = NULL /\ ~g.control
               /\ g.sql = NULL /\ g.edits = NULL /\ ~g.complete /\ g.flags = {}
               /\ NothingDerived(g)
<1> DEFINE g == Released(h)
<1>1. g = [failed |-> h.failed, generation |-> 0, representation |-> "EMPTY",
           compact |-> NULL, compactGeneration |-> 0, wire |-> NULL, ast |-> NULL,
           bound |-> FALSE, multi |-> NULL, control |-> FALSE, sql |-> NULL,
           edits |-> NULL, complete |-> FALSE, flags |-> {}, current |-> NULL,
           graph |-> NULL, binds |-> NULL, certificate |-> NULL]
  BY DEF Released
<1>2. /\ "EMPTY" \in Representations /\ NULL \in VersionOrNull /\ {} \in SUBSET Flags
      /\ h.failed \in BOOLEAN
  BY DEF Representations, VersionOrNull, Handle
<1> HIDE DEF g
<1>3. g \in Handle
  BY <1>1, <1>2 DEF Handle
<1>4. /\ g.failed = h.failed /\ g.generation = 0
      /\ g.representation = "EMPTY" /\ g.compact = NULL /\ g.compactGeneration = 0
      /\ g.wire = NULL /\ g.ast = NULL /\ ~g.bound /\ g.multi = NULL /\ ~g.control
      /\ g.sql = NULL /\ g.edits = NULL /\ ~g.complete /\ g.flags = {}
      /\ NothingDerived(g)
  BY <1>1 DEF NothingDerived
<1>5. QED
  BY <1>3, <1>4 DEF g

\* sqlparser_handle_mark_failed: one generation later, and empty.
LEMMA MarkFailedFacts ==
    ASSUME NEW h \in Handle, ~h.failed
    PROVE  LET g == MarkFailed(h)
           IN  /\ g \in Handle /\ g.failed /\ g.generation = h.generation + 1
               /\ g = [Released(g) EXCEPT !.generation = g.generation]
<1> DEFINE e == Released(h)
           g == [e EXCEPT !.generation = h.generation + 1, !.failed = TRUE]
<1>1. MarkFailed(h) = g
  BY DEF MarkFailed
<1>2. h.generation + 1 \in Nat /\ e \in Handle
  BY ReleasedFacts DEF Handle
<1>3. g \in Handle
  <2> HIDE DEF e
  <2>1. QED
    BY <1>2 DEF Handle
<1>4. g.failed = TRUE /\ g.generation = h.generation + 1
  <2> HIDE DEF e
  <2>1. QED
    BY <1>2 DEF Handle
<1>5. g = [Released(g) EXCEPT !.generation = g.generation]
  <2> DEFINE r == Released(g)
             d == [r EXCEPT !.generation = g.generation]
  <2>1. /\ SameTree(g, e) /\ SameSource(g, e) /\ SameDerived(g, e)
        /\ g.multi = e.multi /\ g.control = e.control /\ g.flags = e.flags
    <3> HIDE DEF e
    <3>1. QED
      BY <1>2 DEF Handle, SameTree, SameSource, SameDerived
  <2> HIDE DEF g
  <2>2. /\ r \in Handle /\ r.failed = g.failed /\ SameTree(r, e) /\ SameSource(r, e)
        /\ SameDerived(r, e) /\ r.multi = e.multi /\ r.control = e.control /\ r.flags = e.flags
    BY <1>3, ReleasedFacts
       DEF NothingDerived, SameTree, SameSource, SameDerived
  <2> HIDE DEF r, e
  <2>3. d \in Handle /\ d.generation = g.generation /\ d.failed = r.failed
        /\ SameTree(d, r) /\ SameSource(d, r)
        /\ SameDerived(d, r) /\ d.multi = r.multi /\ d.control = r.control /\ d.flags = r.flags
    BY <1>3, <2>2 DEF Handle, SameTree, SameSource, SameDerived
  <2> HIDE DEF d
  <2>4. g = d
    BY <1>3, <2>1, <2>2, <2>3, SameFields DEF SameTree, SameSource, SameDerived, SameDocument
  <2>5. QED
    BY <2>4 DEF d, r
<1>6. QED
  BY <1>1, <1>3, <1>4, <1>5

\* A new text with one form of its tree, in an emptied handle.
LEMMA FreshIsSound ==
    ASSUME NEW h \in Handle, NEW v \in Version, ~h.failed, h.multi = NULL, ~h.control, ~h.bound,
           h.generation # 0, h.complete, h.sql = v, h.edits = NULL, NothingDerived(h),
           CompactHolds(h, v) \/ TreeHolds(h, v)
    PROVE  Sound(h, v)
<1>1. DerivedHolds(h, v)
  BY NothingDerivedHolds
<1>2. SourceHolds(h, v)
  BY DEF SourceHolds, Edited
<1>3. QED
  BY <1>1, <1>2 DEF Sound

\* The three commits of a certified INSERT: new wire, a new compact form, or the
\* strings of the AST.
LEMMA CommitInsertFacts ==
    ASSUME NEW h \in Handle, ~h.failed, NEW v \in Version,
           NEW g \in {CommitInsertWire(h, v), CommitCompactInsert(h, v), CommitInsertStrings(h, v)}
    PROVE  /\ Sound(g, v) /\ g.generation = h.generation + 1 /\ g.flags = {}
<1> DEFINE e == Released(h)
           next == h.generation + 1
           w == [e EXCEPT !.generation = next, !.sql = v, !.wire = v,
                          !.representation = "LEGACY_WIRE", !.complete = TRUE]
           c == [e EXCEPT !.generation = next, !.sql = v, !.compactGeneration = next,
                          !.compact = v, !.representation = "COMPACT_INSERT", !.complete = TRUE]
           k == [e EXCEPT !.generation = next, !.sql = v, !.complete = TRUE]
           a == [k EXCEPT !.ast = v, !.representation = "OWNED_AST"]
           b == [k EXCEPT !.wire = v, !.representation = "LEGACY_WIRE"]
<1>1. /\ CommitInsertWire(h, v) = w /\ CommitCompactInsert(h, v) = c
      /\ CommitInsertStrings(h, v) \in {a, b}
  BY DEF CommitInsertWire, CommitCompactInsert, CommitInsertStrings
<1>2. /\ e \in Handle /\ ~e.failed /\ ~e.bound /\ e.multi = NULL /\ ~e.control
      /\ e.compact = NULL /\ e.wire = NULL /\ e.ast = NULL /\ e.edits = NULL /\ e.flags = {}
      /\ NothingDerived(e)
  BY ReleasedFacts
<1>3. /\ next \in Nat /\ next # 0 /\ v \in VersionOrNull
      /\ {"LEGACY_WIRE", "COMPACT_INSERT", "OWNED_AST"} \subseteq Representations
  BY DEF Handle, VersionOrNull, Representations
<1> HIDE DEF e, next
<1>4. w \in Handle /\ c \in Handle
  BY <1>2, <1>3, ZenonT(60) DEF Handle
<1>5. /\ w.generation = next /\ w.sql = v /\ w.wire = v /\ w.representation = "LEGACY_WIRE"
      /\ w.complete /\ ~w.failed /\ ~w.bound /\ w.multi = NULL /\ ~w.control /\ w.compact = NULL
      /\ w.ast = NULL /\ w.edits = NULL /\ w.flags = {} /\ NothingDerived(w)
  BY <1>2 DEF Handle, NothingDerived
<1>6. /\ c.generation = next /\ c.sql = v /\ c.compactGeneration = next
      /\ c.compact = v /\ c.representation = "COMPACT_INSERT"
      /\ c.complete /\ ~c.failed /\ ~c.bound /\ c.multi = NULL /\ ~c.control /\ c.wire = NULL
      /\ c.ast = NULL /\ c.edits = NULL /\ c.flags = {} /\ NothingDerived(c)
  BY <1>2 DEF Handle, NothingDerived
<1>7. /\ k \in Handle /\ k.generation = next /\ k.sql = v
      /\ k.complete /\ ~k.failed /\ ~k.bound /\ k.multi = NULL /\ ~k.control /\ k.compact = NULL
      /\ k.wire = NULL /\ k.ast = NULL /\ k.edits = NULL /\ k.flags = {} /\ NothingDerived(k)
  BY <1>2, <1>3 DEF Handle, NothingDerived
<1> HIDE DEF k
<1>8. a \in Handle /\ b \in Handle
  <2>1. a \in Handle
    BY <1>3, <1>7, ZenonT(60) DEF Handle
  <2>2. b \in Handle
    BY <1>3, <1>7, ZenonT(60) DEF Handle
  <2>3. QED
    BY <2>1, <2>2
<1>9. /\ a.generation = next /\ a.sql = v /\ a.ast = v /\ a.representation = "OWNED_AST"
      /\ a.complete /\ ~a.failed /\ ~a.bound /\ a.multi = NULL /\ ~a.control /\ a.compact = NULL
      /\ a.edits = NULL /\ a.flags = {} /\ NothingDerived(a)
  BY <1>7 DEF Handle, NothingDerived
<1>10. /\ b.generation = next /\ b.sql = v /\ b.wire = v /\ b.representation = "LEGACY_WIRE"
       /\ b.complete /\ ~b.failed /\ ~b.bound /\ b.multi = NULL /\ ~b.control /\ b.compact = NULL
       /\ b.ast = NULL /\ b.edits = NULL /\ b.flags = {} /\ NothingDerived(b)
  BY <1>7 DEF Handle, NothingDerived
<1> HIDE DEF w, c, a, b
<1>11. /\ TreeHolds(w, v) /\ CompactHolds(c, v) /\ TreeHolds(a, v) /\ TreeHolds(b, v)
  BY <1>5, <1>6, <1>9, <1>10 DEF TreeHolds, CompactHolds
<1>12. Sound(w, v) /\ Sound(c, v)
  BY <1>3, <1>4, <1>5, <1>6, <1>11, FreshIsSound
<1>13. Sound(a, v) /\ Sound(b, v)
  BY <1>3, <1>8, <1>9, <1>10, <1>11, FreshIsSound
<1>14. g \in {w, c, a, b}
  BY <1>1
<1>15. QED
  BY <1>5, <1>6, <1>9, <1>10, <1>12, <1>13, <1>14 DEF next

\* sqlparser_handle_commit_rebased_source: the literals of an owned AST and the
\* text change together.
LEMMA RebaseFacts ==
    ASSUME NEW h, NEW u \in Version, Sound(h, u), CanRebase(h), NEW v \in Version
    PROVE  LET g == CommitRebasedSource(h, v)
           IN  /\ Sound(g, v) /\ g.generation = h.generation + 1
               /\ g.sql = v /\ g.edits = NULL /\ g.complete /\ g.compact = NULL
               /\ g.multi = NULL
               /\ g.flags = IF "ACTIVE" \in h.flags THEN h.flags \cup {"AST_DIRTY"}
                                                    ELSE h.flags \ {"AST_DIRTY"}
<1> DEFINE e == InvalidateDerived(h)
           flags == IF "ACTIVE" \in e.flags THEN e.flags \cup {"AST_DIRTY"}
                                            ELSE e.flags \ {"AST_DIRTY"}
           g == [e EXCEPT !.sql = v, !.ast = v, !.edits = NULL, !.wire = NULL, !.bound = TRUE,
                          !.generation = e.generation + 1, !.complete = TRUE, !.flags = flags]
<1>1. CommitRebasedSource(h, v) = g
  BY DEF CommitRebasedSource
<1>2. /\ e \in Handle /\ NothingDerived(e) /\ SameTree(e, h) /\ SameSource(e, h)
      /\ SameDocument(e, h) /\ e.generation = h.generation /\ e.flags = h.flags
  BY InvalidateFacts DEF Sound
<1>3. /\ h.representation = "OWNED_AST" /\ h.multi = NULL /\ ~h.control /\ ~h.failed
      /\ h.compact = NULL
  BY DEF CanRebase, Sound, CompactHolds, TreeHolds
<1> HIDE DEF e
<1>4. flags \in SUBSET Flags /\ e.generation + 1 \in Nat /\ e.generation + 1 # 0 /\ v # NULL
      /\ v \in VersionOrNull /\ NULL \in VersionOrNull
  BY <1>2, NullAssumption DEF Handle, Flags, Version, VersionOrNull, Garbage
<1>5. flags = IF "ACTIVE" \in h.flags THEN h.flags \cup {"AST_DIRTY"} ELSE h.flags \ {"AST_DIRTY"}
  BY <1>2
<1> HIDE DEF flags
<1>6. g \in Handle
  BY <1>2, <1>4 DEF Handle
<1>7. /\ g.sql = v /\ g.ast = v /\ g.edits = NULL /\ g.generation = e.generation + 1
      /\ g.complete /\ g.flags = flags /\ g.representation = e.representation
      /\ g.compact = e.compact /\ SameDocument(g, e) /\ NothingDerived(g)
  BY <1>2 DEF Handle, SameDocument, NothingDerived
<1> HIDE DEF g
<1>8. TreeHolds(g, v) /\ SourceHolds(g, v) /\ DerivedHolds(g, v)
  BY <1>2, <1>3, <1>4, <1>6, <1>7, NothingDerivedHolds
     DEF TreeHolds, SourceHolds, Edited, SameTree
<1>9. Sound(g, v)
  BY <1>2, <1>3, <1>4, <1>6, <1>7, <1>8 DEF Sound, SameDocument
<1>10. QED
  BY <1>1, <1>2, <1>3, <1>5, <1>7, <1>9 DEF SameTree, SameDocument

\* The change is made in the side state; a tree that is the source SELECT of the
\* branches is as current as before.
LEMMA WithStateFacts ==
    ASSUME NEW h, NEW u \in Version, Sound(h, u), h.multi # NULL, NEW v \in Version
    PROVE  LET g == WithState(h, v)
           IN  /\ g \in Handle /\ TreeHolds(g, v) /\ g.multi = v /\ (g.bound => g.ast # NULL)
               /\ ~g.failed /\ ~g.control
               /\ SameSource(g, h) /\ SameDerived(g, h)
               /\ g.generation = h.generation /\ g.flags = h.flags
<1> DEFINE wire == IF h.wire = h.multi THEN v ELSE h.wire
           ast == IF h.ast = h.multi THEN v ELSE h.ast
           g == [h EXCEPT !.multi = v, !.wire = wire, !.ast = ast]
<1>1. WithState(h, v) = g
  BY DEF WithState
<1>2. /\ h.multi = u /\ ~h.control /\ ~h.failed /\ TreeHolds(h, u)
  BY DEF Sound, CompactHolds
<1>3. /\ u # NULL /\ v # NULL /\ v \in VersionOrNull
      /\ wire \in VersionOrNull /\ ast \in VersionOrNull
  BY NullAssumption DEF Sound, Handle, Version, VersionOrNull, Garbage
<1>4. /\ wire = IF h.wire = u THEN v ELSE h.wire
      /\ ast = IF h.ast = u THEN v ELSE h.ast
  BY <1>2
<1> HIDE DEF wire, ast
<1>5. g \in Handle
  BY <1>3 DEF Sound, Handle
<1>6. /\ g.multi = v /\ g.wire = wire /\ g.ast = ast /\ g.bound = h.bound
      /\ g.representation = h.representation /\ g.compact = h.compact
      /\ g.failed = h.failed /\ g.control = h.control
      /\ SameSource(g, h) /\ SameDerived(g, h)
      /\ g.generation = h.generation /\ g.flags = h.flags
  BY DEF Sound, Handle, SameSource, SameDerived
<1> HIDE DEF g
<1>7. TreeHolds(g, v)
  BY <1>2, <1>3, <1>4, <1>6 DEF TreeHolds
<1>8. g.bound => g.ast # NULL
  BY <1>3, <1>4, <1>6 DEF Sound
<1>9. QED
  BY <1>1, <1>2, <1>5, <1>6, <1>7, <1>8

\* oracle_try_commit_multi_insert_strings: text and branches change together.
LEMMA CommitBranchStringsFacts ==
    ASSUME NEW h, NEW u \in Version, Sound(h, u), CanCommitStrings(h), NEW v \in Version
    PROVE  LET g == CommitMultiInsertStrings(h, v)
           IN  /\ Sound(g, v) /\ g.generation = h.generation + 1
               /\ g.sql = v /\ g.edits = NULL /\ g.complete /\ g.compact = NULL
               /\ g.multi = v /\ g.flags = h.flags
<1> DEFINE s == WithState(h, v)
           e == InvalidateDerived(s)
           k == [e EXCEPT !.sql = v, !.complete = TRUE, !.generation = e.generation + 1]
<1>1. CommitMultiInsertStrings(h, v) = CertifySource(k)
  BY DEF CommitMultiInsertStrings
<1>2. h.multi # NULL /\ h.edits = NULL
  BY DEF CanCommitStrings, SourceIsCurrent
<1>3. /\ s \in Handle /\ TreeHolds(s, v) /\ s.multi = v /\ (s.bound => s.ast # NULL)
      /\ ~s.failed /\ ~s.control /\ SameSource(s, h)
      /\ s.generation = h.generation /\ s.flags = h.flags
  BY <1>2, WithStateFacts
<1> HIDE DEF s
<1>4. /\ e \in Handle /\ NothingDerived(e) /\ SameTree(e, s) /\ SameSource(e, s)
      /\ SameDocument(e, s) /\ e.generation = s.generation /\ e.flags = s.flags
  BY <1>3, InvalidateFacts
<1> HIDE DEF e
<1>5. e.generation + 1 \in Nat /\ e.generation + 1 # 0 /\ v # NULL /\ v \in VersionOrNull
  BY <1>4, NullAssumption DEF Handle, Version, VersionOrNull, Garbage
<1>6. k \in Handle
  BY <1>4, <1>5 DEF Handle
<1>7. /\ k.sql = v /\ k.complete /\ k.generation = e.generation + 1 /\ k.edits = e.edits
      /\ k.flags = e.flags /\ SameTree(k, e) /\ SameDocument(k, e) /\ NothingDerived(k)
  BY <1>4 DEF Handle, SameTree, SameDocument, NothingDerived
<1> HIDE DEF k
<1>8. TreeHolds(k, v) /\ SourceHolds(k, v) /\ DerivedHolds(k, v)
  <2>1. TreeHolds(k, v)
    BY <1>3, <1>4, <1>7 DEF TreeHolds, SameTree
  <2>2. SourceHolds(k, v)
    BY <1>2, <1>3, <1>4, <1>7 DEF SourceHolds, Edited, SameSource
  <2>3. QED
    BY <1>6, <1>7, <2>1, <2>2, NothingDerivedHolds
<1>9. Sound(k, v)
  BY <1>3, <1>4, <1>6, <1>7, <1>8 DEF Sound, SameTree, SameDocument
<1>10. LET g == CertifySource(k)
       IN  /\ Sound(g, v) /\ SameTree(g, k) /\ SameSource(g, k) /\ SameDocument(g, k)
           /\ g.generation = k.generation /\ g.flags = k.flags
  BY <1>7, <1>9, CertifyFacts
<1>11. k.compact = NULL /\ k.multi = v /\ k.edits = NULL
  BY <1>2, <1>3, <1>4, <1>7 DEF TreeHolds, SameTree, SameSource, SameDocument
<1>12. QED
  BY <1>1, <1>3, <1>4, <1>7, <1>10, <1>11 DEF SameTree, SameSource, SameDocument

\* sqlparser_handle_commit_ast: the tree that already changed is the document,
\* packed at once or at the end of the list.
LEMMA CommitAstFacts ==
    ASSUME NEW h, NEW u \in Version, Sound(h, u), h.ast = u, h.compact = NULL, NEW v \in Version
    PROVE  LET g == CommitAst(h, v)
           IN  /\ Sound(g, v) /\ g.generation = h.generation + 1
               /\ g.sql = h.sql /\ g.edits = NULL /\ ~g.complete /\ g.compact = NULL
               /\ Dirty(g) <=> Dirty(h)
<1> DEFINE multi == IF h.multi = NULL THEN h.multi ELSE v
           c == [h EXCEPT !.ast = v, !.flags = h.flags \cup {"AST_DIRTY"}, !.multi = multi]
           w == IF c.representation = "OWNED_AST" THEN c.wire ELSE c.ast
           f == [c EXCEPT !.flags = c.flags \ {"AST_DIRTY"}, !.wire = w]
           s == IF "ACTIVE" \in h.flags THEN c ELSE f
           k == [s EXCEPT !.generation = s.generation + 1, !.edits = NULL, !.complete = FALSE]
<1>1. /\ v # NULL /\ u # NULL /\ v \in VersionOrNull /\ multi \in VersionOrNull
      /\ h.flags \cup {"AST_DIRTY"} \in SUBSET Flags
  BY NullAssumption DEF Sound, Handle, Version, VersionOrNull, Garbage, Flags
<1>2. multi = (IF h.multi = NULL THEN NULL ELSE v)
  OBVIOUS
<1> HIDE DEF multi
<1>3. c \in Handle
  BY <1>1, ZenonT(40) DEF Sound, Handle
<1>4. /\ c.ast = v /\ c.flags = h.flags \cup {"AST_DIRTY"} /\ c.multi = multi
      /\ c.representation = h.representation /\ c.compact = h.compact /\ c.wire = h.wire
      /\ c.control = h.control /\ c.failed = h.failed /\ c.sql = h.sql
      /\ c.generation = h.generation
  BY DEF Sound, Handle
<1>5. CommitAst(h, v) = InvalidateDerived(k)
  <2>1. FlushAst(c) = f
    <3> HIDE DEF c
    <3>1. QED
      BY <1>4 DEF FlushAst
  <2>2. QED
    BY <2>1 DEF CommitAst, multi
<1> HIDE DEF c
<1>6. w \in VersionOrNull /\ c.flags \ {"AST_DIRTY"} \in SUBSET Flags
  BY <1>3 DEF Handle
<1>7. w = IF h.representation = "OWNED_AST" THEN h.wire ELSE v
  BY <1>4
<1> HIDE DEF w
<1>8. f \in Handle
  BY <1>3, <1>6, ZenonT(40) DEF Handle
<1>9. /\ f.ast = v /\ f.flags = h.flags \ {"AST_DIRTY"} /\ f.multi = multi
      /\ f.representation = h.representation /\ f.compact = h.compact /\ f.wire = w
      /\ f.control = h.control /\ f.failed = h.failed /\ f.sql = h.sql
      /\ f.generation = h.generation
  BY <1>3, <1>4 DEF Handle
<1> HIDE DEF f
<1>10. /\ s \in Handle /\ s.ast = v /\ s.multi = multi
       /\ s.representation = h.representation /\ s.compact = h.compact
       /\ s.control = h.control /\ s.failed = h.failed /\ s.sql = h.sql
       /\ s.generation = h.generation
       /\ s.flags = IF "ACTIVE" \in h.flags THEN h.flags \cup {"AST_DIRTY"}
                                            ELSE h.flags \ {"AST_DIRTY"}
       /\ "AST_DIRTY" \notin s.flags => s.wire = w
  BY <1>3, <1>4, <1>8, <1>9
<1> HIDE DEF s
<1>11. s.generation + 1 \in Nat /\ s.generation + 1 # 0
  BY <1>10 DEF Handle
<1>12. k \in Handle
  <2>1. s \in Handle /\ s.generation + 1 \in Nat
    BY <1>10, <1>11
  <2>2. QED
    BY ONLY <2>1 DEF Handle, k
<1>13. /\ k.generation = s.generation + 1 /\ k.edits = NULL /\ ~k.complete /\ k.sql = s.sql
       /\ k.flags = s.flags /\ SameTree(k, s) /\ SameDocument(k, s)
  BY <1>10 DEF Handle, SameTree, SameDocument
<1> HIDE DEF k
<1> DEFINE g == InvalidateDerived(k)
<1>14. /\ g \in Handle /\ NothingDerived(g) /\ SameTree(g, k) /\ SameSource(g, k)
       /\ SameDocument(g, k) /\ g.generation = k.generation /\ g.flags = k.flags
  BY <1>12, InvalidateFacts
<1> HIDE DEF g
<1>15. h.representation \in {"OWNED_AST", "LEGACY_AST"}
  BY <1>1 DEF Sound, CompactHolds, TreeHolds
<1>16. TreeHolds(g, v)
  BY <1>7, <1>10, <1>13, <1>14, <1>15 DEF TreeHolds, SameTree
<1>17. SourceHolds(g, v) /\ DerivedHolds(g, v)
  BY <1>11, <1>13, <1>14, NothingDerivedHolds DEF SourceHolds, SameSource
<1>18. Sound(g, v)
  BY <1>1, <1>2, <1>10, <1>13, <1>14, <1>16, <1>17 DEF Sound, SameTree, SameDocument
<1>19. Dirty(g) <=> Dirty(h)
  BY <1>10, <1>13, <1>14 DEF Dirty
<1>20. QED
  BY <1>5, <1>10, <1>13, <1>14, <1>18, <1>19 DEF g, SameTree, SameSource

\* A branch that changed in the side state alone: the text no longer counts.
LEMMA DeferredStateFacts ==
    ASSUME NEW h, NEW u \in Version, Sound(h, u), h.multi # NULL, NEW v \in Version,
           h.edits = NULL
    PROVE  LET g == CommitDeferredState(h, v)
           IN  /\ Sound(g, v) /\ g.generation = h.generation + 1
               /\ g.edits = NULL /\ ~g.complete /\ g.compact = NULL /\ g.multi = v
               /\ g.flags = h.flags \cup {"MULTI_INSERT_DIRTY"}
<1> DEFINE s == WithState(h, v)
           flags == s.flags \cup {"MULTI_INSERT_DIRTY"}
           k == [s EXCEPT !.generation = s.generation + 1, !.complete = FALSE, !.flags = flags]
           g == InvalidateDerived(k)
<1>1. CommitDeferredState(h, v) = g
  BY DEF CommitDeferredState
<1>2. /\ s \in Handle /\ TreeHolds(s, v) /\ s.multi = v /\ (s.bound => s.ast # NULL)
      /\ ~s.failed /\ ~s.control /\ SameSource(s, h)
      /\ s.generation = h.generation /\ s.flags = h.flags
  BY WithStateFacts
<1> HIDE DEF s
<1>3. s.generation + 1 \in Nat /\ s.generation + 1 # 0 /\ flags \in SUBSET Flags
  BY <1>2 DEF Handle, Flags
<1>4. flags = h.flags \cup {"MULTI_INSERT_DIRTY"}
  BY <1>2
<1> HIDE DEF flags
<1>5. k \in Handle
  <2>1. s \in Handle
    BY <1>2
  <2>2. QED
    BY ONLY <1>3, <2>1 DEF Handle, k
<1>6. /\ k.generation = s.generation + 1 /\ ~k.complete /\ k.flags = flags
      /\ k.edits = s.edits /\ SameTree(k, s) /\ SameDocument(k, s)
  BY <1>2 DEF Handle, SameTree, SameDocument
<1> HIDE DEF k
<1>7. /\ g \in Handle /\ NothingDerived(g) /\ SameTree(g, k) /\ SameSource(g, k)
      /\ SameDocument(g, k) /\ g.generation = k.generation /\ g.flags = k.flags
  BY <1>5, InvalidateFacts
<1> HIDE DEF g
<1>8. TreeHolds(g, v)
  BY <1>2, <1>4, <1>6, <1>7 DEF TreeHolds, SameTree
<1>9. SourceHolds(g, v) /\ DerivedHolds(g, v)
  BY <1>3, <1>6, <1>7, NothingDerivedHolds DEF SourceHolds, SameSource
<1>10. Sound(g, v)
  BY <1>2, <1>6, <1>7, <1>8, <1>9 DEF Sound, SameTree, SameDocument
<1>11. g.compact = NULL
  BY <1>8 DEF TreeHolds
<1>12. QED
  BY <1>1, <1>2, <1>4, <1>6, <1>7, <1>10, <1>11 DEF SameSource, SameDocument

\* Text rebuilt from the side state at once is the document, but only because the
\* stale text is not marked complete: otherwise deparse would return that.
LEMMA RebuildFromStateFacts ==
    ASSUME NEW h, NEW u \in Version, Sound(h, u), h.multi # NULL, NEW v \in Version,
           h.edits = NULL, ~h.complete
    PROVE  LET g == RebuildFromState(h, v)
           IN  /\ Sound(g, v) /\ g.generation = h.generation + 2 /\ g.sql = v
               /\ g.edits = NULL /\ g.complete /\ g.compact = NULL /\ g.multi = v
               /\ g.flags = h.flags \cap {"ACTIVE", "IN_PLACE"}
<1> DEFINE s == WithState(h, v)
           k == [s EXCEPT !.generation = s.generation + 1]
           e == InvalidateDerived(k)
<1>1. RebuildFromState(h, v) = Reparse(e, DeparseText(e), "LEGACY_WIRE")
  BY DEF RebuildFromState
<1>2. /\ s \in Handle /\ TreeHolds(s, v) /\ s.multi = v /\ (s.bound => s.ast # NULL)
      /\ ~s.failed /\ ~s.control /\ SameSource(s, h)
      /\ s.generation = h.generation /\ s.flags = h.flags
  BY WithStateFacts
<1> HIDE DEF s
<1>3. s.generation + 1 \in Nat /\ s.generation + 1 # 0 /\ v # NULL
  BY <1>2, NullAssumption DEF Handle, Version, Garbage
<1>4. k \in Handle
  BY <1>2, <1>3 DEF Handle
<1>5. /\ k.generation = s.generation + 1 /\ k.flags = s.flags
      /\ SameSource(k, s) /\ SameTree(k, s) /\ SameDocument(k, s)
  BY <1>2 DEF Handle, SameSource, SameTree, SameDocument
<1> HIDE DEF k
<1>6. /\ e \in Handle /\ NothingDerived(e) /\ SameTree(e, k) /\ SameSource(e, k)
      /\ SameDocument(e, k) /\ e.generation = k.generation /\ e.flags = k.flags
  BY <1>4, InvalidateFacts
<1> HIDE DEF e
<1>7. TreeHolds(e, v)
  BY <1>2, <1>5, <1>6 DEF TreeHolds, SameTree
<1>8. SourceHolds(e, v) /\ DerivedHolds(e, v)
  BY <1>2, <1>3, <1>5, <1>6, NothingDerivedHolds DEF SourceHolds, SameSource
<1>9. Sound(e, v)
  BY <1>2, <1>5, <1>6, <1>7, <1>8 DEF Sound, SameTree, SameDocument
<1>10. DeparseText(e) = v
  BY <1>9, DeparseFacts
<1>11. e.multi = v /\ ~e.control
  BY <1>2, <1>5, <1>6 DEF SameDocument
<1> DEFINE g == Reparse(e, v, "LEGACY_WIRE")
<1>12. /\ Sound(g, v) /\ g.generation = e.generation + 1
       /\ g.sql = v /\ g.edits = NULL /\ g.complete /\ g.compact = NULL
       /\ g.multi = (IF e.multi # NULL THEN v ELSE NULL)
       /\ g.flags = e.flags \cap {"ACTIVE", "IN_PLACE"}
  BY <1>6, <1>11, ReparseFacts
<1>13. g.generation = h.generation + 2
  <2>1. e.generation = h.generation + 1 /\ h.generation \in Nat
    BY <1>2, <1>5, <1>6 DEF Sound, Handle
  <2>2. QED
    BY <1>12, <2>1
<1>14. QED
  BY <1>1, <1>2, <1>3, <1>5, <1>6, <1>10, <1>11, <1>12, <1>13

-----------------------------------------------------------------------------
(* The inductive invariant.                                                *)

BetweenLists ==
  /\ Sound(handle, document)
  /\ handle.flags = {}
  /\ view # NULL => /\ view.generation <= handle.generation
                    /\ view.generation = handle.generation => view.text = document

\* The version the forms of the handle hold while edits are pending is its text's.
Shown(h, b, d) == IF b.pending # 0 THEN h.sql ELSE d

HandleDuring(h, b, d) ==
  /\ Sound(h, Shown(h, b, d))
  /\ h.compact = NULL /\ h.edits = NULL
  /\ Dirty(h) => ~h.complete
  /\ IF b.complete
     THEN /\ Edited(h.sql, b.edits) = d
          /\ b.pending # 0 => b.edits # NULL
          /\ ~Dirty(h)
     ELSE b.edits = NULL /\ b.pending = 0

\* What each stage may rely on.
StageHolds(h, b) ==
  /\ b.stage = "defer" => b.complete /\ b.edits = NULL /\ b.pending = 0
  /\ b.stage = "surface_plan" => b.complete /\ (b.pending = 0 => b.edits = NULL)
  /\ b.stage \in {"multi", "operate", "end", "tail", "rhs", "commit"} => b.pending = 0
  /\ b.stage = "operate" /\ h.multi # NULL /\ b.kind \in {"cell", "columns"} /\ b.defer = 0
       => b.complete \/ ~h.complete
  /\ b.stage \in {"tail", "rhs", "commit"} => h.flags \cap {"ACTIVE", "AST_DIRTY"} = {}
  /\ b.stage \in {"rhs", "commit"} => ~Dirty(h)
  /\ b.stage \in {"end", "tail", "rhs", "commit"} => b.left = 0

\* Patches of the list that are still to take effect.
Todo(b) ==
  b.left + (IF b.stage \in {"surface", "defer", "surface_plan", "multi", "operate"}
            THEN 1 ELSE 0)

Counted(h, b, d) ==
  /\ b.before <= d /\ d + Todo(b) <= MaxDocument /\ d + Todo(b) > b.before
  /\ b.original <= h.generation

WithinList ==
  /\ HandleDuring(handle, batch, document)
  /\ StageHolds(handle, batch)
  /\ Counted(handle, batch, document)
  /\ batch.before \in Nat
  /\ view # NULL => view.generation <= batch.original
  /\ answer = NULL

HandleInvariant ==
  /\ TypeOK
  /\ answer \in {NULL, document}
  /\ handle = NULL => batch = NULL /\ view = NULL
  /\ handle # NULL /\ handle.failed =>
       /\ batch = NULL
       /\ handle = [Released(handle) EXCEPT !.generation = handle.generation]
       /\ view # NULL => view.generation < handle.generation
  /\ Idle => BetweenLists
  /\ Live /\ batch # NULL => WithinList

-----------------------------------------------------------------------------
(* Steps, as the invariant sees them.                                      *)

\* A sound handle is an object, and it is live.
LEMMA SoundIsLive ==
    ASSUME NEW h, NEW v, Sound(h, v)
    PROVE  h # NULL /\ h \in Handle /\ ~h.failed
BY NullAssumption DEF Sound

\* The document is a version.
LEMMA DocumentIsVersion ==
    ASSUME TypeOK
    PROVE  document \in Nat /\ document \in Version
BY BoundAssumption DEF TypeOK, Version

\* A call between lists, or the end of a list.
LEMMA IdleStep ==
    ASSUME batch' = NULL, document' \in 0..MaxDocument, Sound(handle', document'),
           handle'.flags = {}, answer' \in {NULL, document'}, view' \in View \cup {NULL},
           view' # NULL => /\ view'.generation <= handle'.generation
                           /\ view'.generation = handle'.generation => view'.text = document'
    PROVE  HandleInvariant'
<1>1. handle' # NULL /\ handle' \in Handle /\ ~handle'.failed
  BY SoundIsLive
<1>2. TypeOK'
  BY <1>1, BoundAssumption DEF TypeOK, VersionOrNull, Version
<1>3. QED
  BY <1>1, <1>2 DEF HandleInvariant, Idle, Live, BetweenLists

\* To the owner a step within a list is none.
StaysInList ==
  /\ batch # NULL /\ batch' # NULL
  /\ batch'.original = batch.original /\ batch'.before = batch.before
  /\ handle # NULL /\ ~handle.failed /\ handle' # NULL /\ ~handle'.failed
  /\ UNCHANGED <<view, answer>>

\* A step within a list keeps the invariant if its parts hold again.
LEMMA ListStep ==
    ASSUME TypeOK, Live, batch # NULL, WithinList, batch' \in Batch, document' \in Nat,
           HandleDuring(handle', batch', document'), StageHolds(handle', batch'),
           Counted(handle', batch', document'), batch'.original = batch.original,
           batch'.before = batch.before, UNCHANGED <<view, answer>>
    PROVE  HandleInvariant' /\ StaysInList
<1>1. handle' # NULL /\ handle' \in Handle /\ ~handle'.failed
  BY SoundIsLive DEF HandleDuring
<1>2. batch' # NULL
  BY NoListIsNull
<1>3. document' \in 0..MaxDocument
  <2>1. Todo(batch') \in Nat
    BY DEF Todo, Batch
  <2>2. QED
    BY <2>1, BoundAssumption DEF Counted
<1>4. TypeOK'
  BY <1>1, <1>3 DEF TypeOK
<1>5. WithinList'
  BY DEF WithinList
<1>6. QED
  BY <1>1, <1>2, <1>4, <1>5 DEF HandleInvariant, StaysInList, Idle, Live, WithinList

-----------------------------------------------------------------------------
(* Initial states and reading.                                             *)

\* sqlparser_parse returns a handle that is live and sound.
LEMMA InitEstablishes == Init => HandleInvariant /\ Idle
<1> SUFFICES ASSUME Init PROVE HandleInvariant /\ Idle
  OBVIOUS
<1>1. PICK r \in {"LEGACY_WIRE", "OWNED_AST", "COMPACT_INSERT"}, multi \in BOOLEAN,
           control \in BOOLEAN :
        /\ multi => r = "LEGACY_WIRE" /\ ~control
        /\ control => r # "COMPACT_INSERT"
        /\ handle = Parsed(0, r, multi, control)
  BY DEF Init
<1>2. document = 0 /\ batch = NULL /\ view = NULL /\ answer = NULL
  BY DEF Init
<1>3. Sound(handle, 0) /\ handle.flags = {}
  BY <1>1, ParsedFacts DEF Version
<1>4. handle # NULL /\ handle \in Handle /\ ~handle.failed
  BY <1>3, SoundIsLive
<1>5. TypeOK
  BY <1>2, <1>4, BoundAssumption DEF TypeOK, VersionOrNull
<1>6. QED
  BY <1>2, <1>3, <1>4, <1>5 DEF HandleInvariant, Idle, Live, BetweenLists

\* What the invariant says of a handle between calls.
LEMMA IdleFacts ==
    ASSUME HandleInvariant, Idle
    PROVE  /\ document \in Nat /\ document \in Version /\ document \in 0..MaxDocument
           /\ Sound(handle, document) /\ handle \in Handle /\ handle.generation \in Nat
           /\ handle.flags = {} /\ batch = NULL /\ view \in View \cup {NULL}
           /\ view # NULL => /\ view.generation <= handle.generation
                             /\ view.generation = handle.generation => view.text = document
BY DocumentIsVersion, SoundIsLive DEF HandleInvariant, TypeOK, Idle, BetweenLists, Handle

\* The call as the owner sees it: an answer, and a handle that is the same to him.
ReadAs(shown) ==
  /\ Idle /\ UNCHANGED <<document, batch>> /\ answer' = shown
  /\ Sound(handle', document) /\ Kept(handle', handle)

\* A call that only reads.
LEMMA ReadStep ==
    ASSUME HandleInvariant, Idle, Sound(handle', document), Kept(handle', handle),
           handle'.flags = {}, answer' \in {NULL, document}, UNCHANGED <<document, batch>>,
           view' = view \/ (view' \in View /\ view'.generation = handle'.generation
                                           /\ view'.text = document)
    PROVE  HandleInvariant' /\ ReadAs(answer')
<1>1. handle'.generation = handle.generation
  BY DEF Kept
<1>2. document' \in 0..MaxDocument /\ batch' = NULL
  BY IdleFacts
<1>3. /\ view' \in View \cup {NULL}
      /\ view' # NULL => /\ view'.generation <= handle'.generation
                         /\ view'.generation = handle'.generation => view'.text = document
  BY <1>1, IdleFacts DEF View
<1>4. HandleInvariant'
  BY <1>2, <1>3, IdleStep
<1>5. QED
  BY <1>4 DEF ReadAs

\* sqlparser_deparse.
LEMMA DeparseReads ==
    ASSUME HandleInvariant, Deparse
    PROVE  HandleInvariant' /\ ReadAs(document)
<1>1. Idle /\ answer' = DeparseText(handle) /\ handle' = DeparseHandle(handle)
      /\ UNCHANGED <<document, batch, view>>
  BY DEF Deparse
<1>2. /\ DeparseText(handle) = document
      /\ Sound(DeparseHandle(handle), document) /\ Kept(DeparseHandle(handle), handle)
      /\ DeparseHandle(handle).flags = handle.flags \ {"AST_DIRTY"}
  BY <1>1, IdleFacts, DeparseFacts
<1>3. QED
  BY <1>1, <1>2, IdleFacts, ReadStep

\* sqlparser_statement_query_graph.
LEMMA ReadGraphReads ==
    ASSUME HandleInvariant, ReadGraph
    PROVE  HandleInvariant' /\ ReadAs(document)
<1>1. /\ Idle /\ handle' \in GraphReads(handle) /\ answer' = handle'.graph.text
      /\ view' \in {view, [generation |-> handle'.generation, text |-> answer']}
      /\ UNCHANGED <<document, batch>>
  BY DEF ReadGraph
<1>2. /\ Sound(handle', document) /\ Kept(handle', handle) /\ handle'.flags = handle.flags
      /\ handle'.graph.text = document
  BY <1>1, IdleFacts, GraphReadsFacts
<1>3. handle'.generation \in Nat
  BY <1>2 DEF Sound, Handle
<1>4. view' = view \/ (view' \in View /\ view'.generation = handle'.generation
                                      /\ view'.text = document)
  BY <1>1, <1>2, <1>3, IdleFacts DEF View
<1>5. QED
  BY <1>1, <1>2, <1>4, IdleFacts, ReadStep

\* sqlparser_query_graph_field_at and the rest: a view that passes the check.
LEMMA FollowViewReads ==
    ASSUME HandleInvariant, FollowView
    PROVE  HandleInvariant' /\ ReadAs(document)
<1>1. /\ Idle /\ ViewIsAccepted(handle, view) /\ answer' = handle.graph.text
      /\ UNCHANGED <<handle, document, batch, view>>
  BY DEF FollowView
<1>2. GraphIsCurrent(handle)
  BY <1>1 DEF ViewIsAccepted, GraphIsCurrent
<1>3. handle.graph.text = document
  BY <1>1, <1>2, IdleFacts DEF Sound, DerivedHolds
<1>4. Kept(handle, handle)
  BY DEF Kept, SameSource, SameDocument
<1>5. QED
  BY <1>1, <1>3, <1>4, IdleFacts, ReadStep

\* sqlparser_bind_occurrences.
LEMMA ReadBindsReads ==
    ASSUME HandleInvariant, ReadBinds
    PROVE  HandleInvariant' /\ ReadAs(document)
<1>1. /\ Idle /\ handle' = EnsureBinds(handle) /\ answer' = handle'.binds.text
      /\ UNCHANGED <<document, batch, view>>
  BY DEF ReadBinds
<1>2. /\ Sound(handle', document) /\ Kept(handle', handle)
      /\ handle'.flags \in {handle.flags, handle.flags \ {"AST_DIRTY"}}
      /\ handle'.binds.text = document
  BY <1>1, IdleFacts, EnsureBindsFacts
<1>3. QED
  BY <1>1, <1>2, IdleFacts, ReadStep

\* Statement and field views load the tree; view JSON may drop it again.
LEMMA ReadTreeReads ==
    ASSUME HandleInvariant, ReadTree
    PROVE  HandleInvariant' /\ ReadAs(document)
<1> DEFINE loaded == EnsureAst(handle)
<1>1. /\ Idle /\ answer' = loaded.ast /\ handle' \in {loaded, DiscardAstAdapter(loaded)}
      /\ UNCHANGED <<document, batch, view>>
  BY DEF ReadTree
<1>2. /\ Sound(loaded, document) /\ Kept(loaded, handle) /\ loaded.flags = handle.flags
      /\ loaded.ast = document
  BY <1>1, IdleFacts, EnsureAstFacts
<1> HIDE DEF loaded
<1>3. /\ Sound(DiscardAstAdapter(loaded), document) /\ Kept(DiscardAstAdapter(loaded), loaded)
      /\ DiscardAstAdapter(loaded).flags = loaded.flags
  BY <1>1, <1>2, IdleFacts, DiscardFacts
<1>4. Sound(handle', document) /\ Kept(handle', handle) /\ handle'.flags = handle.flags
  BY <1>1, <1>2, <1>3 DEF Kept, SameSource, SameDocument
<1>5. QED
  BY <1>1, <1>2, <1>4, IdleFacts, ReadStep

\* A load that fails, at any of its steps.
LEMMA ReadTreeFailsKeeps ==
    ASSUME HandleInvariant, ReadTreeFails
    PROVE  HandleInvariant' /\ ReadAs(NULL)
<1>1. /\ Idle /\ handle' \in {handle, PromoteCompact(handle), EnsureAstFailed(handle)}
      /\ answer' = NULL /\ UNCHANGED <<document, batch, view>>
  BY DEF ReadTreeFails
<1>2. /\ Sound(PromoteCompact(handle), document) /\ Kept(PromoteCompact(handle), handle)
      /\ PromoteCompact(handle).flags = handle.flags
  BY <1>1, IdleFacts, PromoteFacts
<1>3. /\ Sound(EnsureAstFailed(handle), document) /\ Kept(EnsureAstFailed(handle), handle)
      /\ EnsureAstFailed(handle).flags = handle.flags
  BY <1>1, IdleFacts, EnsureAstFailedFacts
<1>4. Sound(handle', document) /\ Kept(handle', handle) /\ handle'.flags = handle.flags
  BY <1>1, <1>2, <1>3, IdleFacts DEF Kept, SameSource, SameDocument
<1>5. QED
  BY <1>1, <1>4, IdleFacts, ReadStep

-----------------------------------------------------------------------------
(* Lists that take effect in one step.                                     *)

\* The list as its owner sees it: all patches, one generation.
AppliedAtOnce ==
  /\ Idle /\ batch' = NULL /\ answer' = NULL /\ Sound(handle', document')
  /\ document' \in Nat /\ document' > document
  /\ handle'.generation = handle.generation + 1

\* A list of n patches that took effect at once.
LEMMA ApplyStep ==
    ASSUME HandleInvariant, Idle, NEW n \in Counts(1), CommittedAtOnce(n),
           Sound(handle', document + n), handle'.generation = handle.generation + 1,
           handle'.flags = {}
    PROVE  HandleInvariant' /\ AppliedAtOnce
<1>1. /\ document' = document + n /\ answer' = NULL /\ batch' = NULL /\ view' = view
  BY IdleFacts DEF CommittedAtOnce
<1>2. n \in Nat /\ n >= 1 /\ document + n <= MaxDocument /\ document \in Nat
  BY IdleFacts, BoundAssumption DEF Counts
<1>3. document + n \in 0..MaxDocument /\ document + n > document
  BY <1>2, BoundAssumption
<1>4. /\ view' \in View \cup {NULL}
      /\ view' # NULL => /\ view'.generation <= handle'.generation
                         /\ view'.generation = handle'.generation => view'.text = document'
  BY <1>1, IdleFacts DEF View
<1>5. HandleInvariant'
  BY <1>1, <1>3, <1>4, IdleStep
<1>6. QED
  BY <1>1, <1>2, <1>3, <1>5 DEF AppliedAtOnce

\* What is counted is a number of patches, and the next version a version.
LEMMA CountsFacts ==
    ASSUME HandleInvariant, Idle, NEW least \in {1, 2}, NEW n \in Counts(least)
    PROVE  n \in Nat /\ n \in Counts(1) /\ document + n \in Version /\ document + n \in Nat
BY IdleFacts, BoundAssumption DEF Counts, Version

\* A handle without pending edits whose text counts holds the document in it.
LEMMA PlainSource ==
    ASSUME NEW h, NEW v, Sound(h, v), h.edits = NULL, h.generation = 0 \/ h.complete
    PROVE  h.sql = v
BY DEF Sound, SourceHolds, Edited

\* sqlparser_patch_try_wire_scalar_insert and its compact twin: the certificate of
\* the graph vouches for the text.
LEMMA ApplyToWireApplies ==
    ASSUME HandleInvariant, ApplyToWire
    PROVE  HandleInvariant' /\ AppliedAtOnce
<1>1. Idle /\ FastPathAllowed /\ CertifiedGraphUsable(handle)
  BY DEF ApplyToWire, FastPathAllowed
<1>2. PICK n \in Counts(1) :
        LET text == IF handle.graph.text = document
                    THEN Patched(handle.sql, document, n) ELSE Garbage
        IN  /\ handle' = IF handle.graph.certified = "compact"
                         THEN CommitCompactInsert(handle, text)
                         ELSE CommitInsertWire(handle, text)
            /\ CommittedAtOnce(n)
  BY DEF ApplyToWire
<1>3. Sound(handle, document) /\ handle \in Handle /\ ~handle.failed
  BY <1>1, IdleFacts, SoundIsLive
<1>4. GraphIsCurrent(handle) /\ handle.graph.certified # "no"
  BY <1>1 DEF CertifiedGraphUsable
<1>5. handle.graph.text = document /\ handle.sql = document
  BY <1>3, <1>4 DEF Sound, DerivedHolds
<1>6. handle' \in {CommitInsertWire(handle, document + n), CommitCompactInsert(handle, document + n),
                   CommitInsertStrings(handle, document + n)}
  BY <1>2, <1>5 DEF Patched
<1>7. Sound(handle', document + n) /\ handle'.generation = handle.generation + 1
      /\ handle'.flags = {}
  BY <1>1, <1>3, <1>6, CountsFacts, CommitInsertFacts
<1>8. QED
  BY <1>1, <1>2, <1>7, ApplyStep

\* sqlparser_patch_try_readonly_oracle_strings: the certificate says that the
\* branches were read from this text.
LEMMA ApplyToBranchesApplies ==
    ASSUME HandleInvariant, ApplyToBranches
    PROVE  HandleInvariant' /\ AppliedAtOnce
<1>1. Idle /\ CanCommitStrings(handle) /\ handle.flags = {}
  BY DEF ApplyToBranches, FastPathAllowed
<1> DEFINE done(n) == CommitMultiInsertStrings(handle, Patched(handle.sql, document, n))
           dated(n) == [done(n) EXCEPT !.generation = handle.generation + 1]
           bare(n) == DiscardAstAdapter(dated(n))
<1>2. PICK n \in Counts(1) : handle' = CertifySource(bare(n)) /\ CommittedAtOnce(n)
  BY DEF ApplyToBranches
<1>3. Sound(handle, document) /\ handle \in Handle
  BY <1>1, IdleFacts
<1>4. handle.sql = document
  BY <1>1, <1>3 DEF CanCommitStrings, SourceIsCurrent, Sound, DerivedHolds
<1> DEFINE g == CommitMultiInsertStrings(handle, document + n)
<1>5. done(n) = g
  BY <1>4 DEF Patched
<1>6. document + n \in Version
  BY <1>1, CountsFacts
<1>7. /\ Sound(g, document + n) /\ g.generation = handle.generation + 1
      /\ g.sql = document + n /\ g.multi = document + n /\ g.flags = {}
  BY <1>1, <1>3, <1>6, IdleFacts, CommitBranchStringsFacts
<1> HIDE DEF g, done
<1>8. dated(n) = g
  BY <1>5, <1>7 DEF Sound, Handle
<1> HIDE DEF dated
<1>9. /\ Sound(bare(n), document + n) /\ Kept(bare(n), g) /\ bare(n).flags = {}
  BY <1>6, <1>7, <1>8, DiscardFacts
<1> HIDE DEF bare
<1>10. bare(n).sql = document + n /\ bare(n).generation = handle.generation + 1
  BY <1>7, <1>9 DEF Kept, SameSource
<1>11. /\ Sound(handle', document + n) /\ handle'.generation = handle.generation + 1
       /\ handle'.flags = {}
  BY <1>2, <1>6, <1>9, <1>10, CertifyFacts
<1>12. QED
  BY <1>1, <1>2, <1>11, ApplyStep

\* sqlparser_patch_try_readonly_insert_strings: literals of the AST and the text
\* change together, or the text alone is parsed again.
LEMMA ApplyToStringsApplies ==
    ASSUME HandleInvariant, ApplyToStrings
    PROVE  HandleInvariant' /\ AppliedAtOnce
<1> DEFINE h == IF CertifiedGraphUsable(handle) THEN EnsureAst(handle) ELSE handle
           text(n) == IF h.ast = document THEN Patched(h.sql, document, n) ELSE Garbage
<1>1. /\ Idle /\ handle.edits = NULL /\ handle.flags = {}
      /\ handle.generation = 0 \/ handle.complete
      /\ handle.multi = NULL /\ h.ast # NULL
  BY DEF ApplyToStrings, FastPathAllowed
<1>2. PICK n \in Counts(2) :
        /\ \/ handle' = CommitInsertStrings(h, text(n))
           \/ \E r \in ParserChoices(h) : handle' = Reparse(h, text(n), r)
        /\ CommittedAtOnce(n)
  BY DEF ApplyToStrings
<1>3. Sound(handle, document) /\ handle \in Handle
  BY <1>1, IdleFacts
<1>4. Sound(h, document) /\ Kept(h, handle) /\ h.flags = {}
  <2>1. Kept(handle, handle)
    BY DEF Kept, SameSource, SameDocument
  <2>2. QED
    BY <1>1, <1>3, <2>1, IdleFacts, EnsureAstFacts
<1> HIDE DEF h
<1>5. h.ast = document /\ h.sql = document
  <2>1. h.ast = document
    BY <1>1, <1>4 DEF Sound, CompactHolds, TreeHolds
  <2>2. h.edits = NULL /\ (h.generation = 0 \/ h.complete)
    BY <1>1, <1>4 DEF Kept, SameSource
  <2>3. QED
    BY <1>4, <2>1, <2>2, PlainSource
<1>6. text(n) = document + n
  BY <1>5 DEF Patched
<1> HIDE DEF text
<1>7. document + n \in Version /\ n \in Counts(1)
  BY <1>1, CountsFacts
<1>8. h \in Handle /\ ~h.failed /\ h.generation = handle.generation /\ h.multi = NULL
  BY <1>1, <1>4, SoundIsLive DEF Kept, SameDocument
<1>9. /\ Sound(handle', document + n) /\ handle'.generation = handle.generation + 1
      /\ handle'.flags = {}
  <2>1. CASE handle' = CommitInsertStrings(h, document + n)
    <3>1. handle' \in {CommitInsertWire(h, document + n), CommitCompactInsert(h, document + n),
                       CommitInsertStrings(h, document + n)}
      BY <2>1
    <3>2. QED
      BY <1>7, <1>8, <3>1, CommitInsertFacts
  <2>2. ASSUME NEW r \in ParserChoices(h), handle' = Reparse(h, document + n, r)
        PROVE  /\ Sound(handle', document + n) /\ handle'.generation = handle.generation + 1
               /\ handle'.flags = {}
    <3>1. r \in {"LEGACY_WIRE", "OWNED_AST"}
      BY <2>2 DEF ParserChoices
    <3>2. QED
      BY <1>4, <1>7, <1>8, <2>2, <3>1, ReparseFacts
  <2>3. QED
    BY <1>2, <1>6, <2>1, <2>2
<1>10. QED
  BY <1>1, <1>2, <1>7, <1>9, ApplyStep

-----------------------------------------------------------------------------
(* Failing and destroying.                                                 *)

\* What the invariant says of a handle within a list.
LEMMA ListFacts ==
    ASSUME HandleInvariant, Live, batch # NULL
    PROVE  /\ TypeOK /\ WithinList /\ batch \in Batch /\ handle \in Handle /\ ~handle.failed
           /\ document \in Nat /\ document \in Version /\ handle.generation \in Nat
           /\ view \in View \cup {NULL} /\ answer = NULL
           /\ batch.before \in 0..MaxDocument /\ batch.before < document + Todo(batch)
<1>1. TypeOK /\ WithinList
  BY DEF HandleInvariant
<1>2. batch \in Batch /\ handle \in Handle /\ view \in View \cup {NULL}
  BY <1>1 DEF TypeOK, Live
<1>3. document \in Nat /\ document \in Version /\ document \in 0..MaxDocument
  BY <1>1, DocumentIsVersion DEF TypeOK
<1>4. batch.before \in 0..MaxDocument /\ batch.before < document + Todo(batch)
  <2>1. batch.before \in Nat /\ batch.before <= document /\ document + Todo(batch) > batch.before
    BY <1>1 DEF WithinList, Counted
  <2>2. Todo(batch) \in Nat
    BY <1>2 DEF Todo, Batch
  <2>3. QED
    BY <1>3, <2>1, <2>2, BoundAssumption
<1>5. QED
  BY <1>1, <1>2, <1>3, <1>4 DEF Live, WithinList, Handle

\* A failed handle is empty, and dated after every view.
LEMMA FailStep ==
    ASSUME NEW h \in Handle, ~h.failed, handle' = MarkFailed(h), batch' = NULL, answer' = NULL,
           document' \in 0..MaxDocument, view' \in View \cup {NULL},
           view' # NULL => view'.generation <= h.generation
    PROVE  HandleInvariant' /\ handle' # NULL /\ handle'.failed
             /\ handle'.generation = h.generation + 1
<1>1. /\ handle' \in Handle /\ handle'.failed /\ handle'.generation = h.generation + 1
      /\ handle' = [Released(handle') EXCEPT !.generation = handle'.generation]
  BY MarkFailedFacts
<1>2. handle' # NULL
  BY <1>1, NullAssumption
<1>3. TypeOK'
  BY <1>1 DEF TypeOK, VersionOrNull
<1>4. view' # NULL => view'.generation < handle'.generation
  <2>1. h.generation \in Nat
    BY DEF Handle
  <2>2. QED
    BY <1>1, <2>1 DEF View
<1>5. QED
  BY <1>1, <1>2, <1>3, <1>4 DEF HandleInvariant, Idle, Live

\* sqlparser_handle_mark_failed after a failed deparse.
LEMMA DeparseFailsEmpties ==
    ASSUME HandleInvariant, DeparseFails
    PROVE  /\ HandleInvariant' /\ handle' # NULL /\ handle'.failed
           /\ handle'.generation = handle.generation + 1
<1>1. /\ Idle /\ handle' = MarkFailed(handle) /\ answer' = NULL
      /\ UNCHANGED <<document, batch, view>>
  BY DEF DeparseFails
<1>2. QED
  BY <1>1, IdleFacts, FailStep DEF Idle, Live

\* An error stops the list wherever it is, and no older view survives.
LEMMA ApplyFailsEmpties ==
    ASSUME HandleInvariant, ApplyFails
    PROVE  /\ HandleInvariant' /\ handle' # NULL /\ handle'.failed /\ batch' = NULL
           /\ handle'.generation \in Nat /\ handle'.generation > handle.generation
<1>1. PICK moved \in {0, 1} : handle' = MarkFailed([handle EXCEPT !.generation = @ + moved])
  BY DEF ApplyFails
<1> DEFINE h == [handle EXCEPT !.generation = handle.generation + moved]
<1>2. /\ Live /\ handle' = MarkFailed(h) /\ batch' = NULL /\ answer' = NULL /\ view' = view
      /\ document' = IF batch = NULL THEN document ELSE batch.before
  BY <1>1 DEF ApplyFails
<1>3. handle \in Handle /\ ~handle.failed /\ handle.generation \in Nat
  BY <1>2, IdleFacts, ListFacts DEF Idle, Live
<1>4. /\ h \in Handle /\ ~h.failed /\ h.generation = handle.generation + moved
  BY <1>3 DEF Handle
<1> HIDE DEF h
<1>5. CASE batch = NULL
  <2>1. /\ document \in 0..MaxDocument /\ view \in View \cup {NULL}
        /\ view # NULL => view.generation <= handle.generation
    BY <1>2, <1>5, IdleFacts DEF Idle
  <2>2. view' # NULL => view'.generation <= h.generation
    BY <1>2, <1>3, <1>4, <2>1 DEF View
  <2>3. QED
    BY <1>2, <1>3, <1>4, <1>5, <2>1, <2>2, FailStep
<1>6. CASE batch # NULL
  <2>1. /\ batch.before \in 0..MaxDocument /\ view \in View \cup {NULL}
        /\ view # NULL => view.generation <= batch.original
        /\ batch.original <= handle.generation /\ batch.original \in Nat
    BY <1>2, <1>6, ListFacts DEF WithinList, Counted, Batch
  <2>2. view' # NULL => view'.generation <= h.generation
    BY <1>2, <1>3, <1>4, <2>1 DEF View
  <2>3. QED
    BY <1>2, <1>3, <1>4, <1>6, <2>1, <2>2, FailStep
<1>7. QED
  BY <1>5, <1>6

\* sqlparser_destroy.
LEMMA DestroyEnds ==
    ASSUME HandleInvariant, Destroy
    PROVE  HandleInvariant'
BY DEF HandleInvariant, Destroy, TypeOK, Idle, Live, VersionOrNull

-----------------------------------------------------------------------------
(* Beginning a list.                                                       *)

\* The handles a list may start from keep the document and drop the pending edits,
\* which the list takes over.
LEMMA BatchHandlesFacts ==
    ASSUME NEW h, NEW v \in Version, Sound(h, v), h.flags = {}, NEW introduces \in BOOLEAN,
           NEW g \in BatchHandles(h, introduces)
    PROVE  /\ Sound(g, v) /\ g.generation = h.generation /\ g.sql = h.sql
           /\ g.compact = NULL /\ g.edits = NULL /\ g.flags = {"ACTIVE", "IN_PLACE"}
<1> DEFINE loaded == IF CertifiedGraphUsable(h) /\ h.ast = NULL THEN EnsureAst(h) ELSE h
           promoted == PromoteCompact(loaded)
           asked == IF h.control \/ introduces THEN {promoted} ELSE GraphReads(promoted)
<1>1. PICK f \in asked : g = [f EXCEPT !.edits = NULL, !.complete = FALSE,
                                       !.flags = {"ACTIVE", "IN_PLACE"}]
  BY DEF BatchHandles
<1>2. Sound(loaded, v) /\ Kept(loaded, h) /\ loaded.flags = {}
  <2>1. Kept(h, h)
    BY DEF Kept, SameSource, SameDocument
  <2>2. QED
    BY <2>1, EnsureAstFacts
<1> HIDE DEF loaded
<1>3. /\ Sound(promoted, v) /\ Kept(promoted, loaded) /\ promoted.flags = {}
      /\ promoted.compact = NULL
  BY <1>2, PromoteFacts
<1> HIDE DEF promoted
<1>4. Sound(f, v) /\ f.generation = h.generation /\ f.sql = h.sql /\ f.compact = NULL
      /\ f.flags = {}
  <2>1. CASE f = promoted
    BY <1>2, <1>3, <2>1 DEF Kept, SameSource
  <2>2. CASE f \in GraphReads(promoted)
    <3>1. Sound(f, v) /\ Kept(f, promoted) /\ f.flags = promoted.flags
      BY <1>3, <2>2, GraphReadsFacts
    <3>2. QED
      BY <1>2, <1>3, <3>1 DEF Kept, SameSource
  <2>3. QED
    BY <1>1, <2>1, <2>2
<1> HIDE DEF asked
<1>5. g \in Handle
  <2>1. f \in Handle /\ {"ACTIVE", "IN_PLACE"} \in SUBSET Flags
    BY <1>4 DEF Sound, Flags
  <2>2. QED
    BY ONLY <1>1, <2>1 DEF Handle
<1>6. /\ g.edits = NULL /\ ~g.complete /\ g.flags = {"ACTIVE", "IN_PLACE"} /\ g.sql = f.sql
      /\ g.generation = f.generation /\ SameTree(g, f) /\ SameDerived(g, f) /\ SameDocument(g, f)
  BY <1>1, <1>4 DEF Sound, Handle, SameTree, SameDerived, SameDocument
<1>7. SourceHolds(g, v)
  BY <1>4, <1>6 DEF Sound, SourceHolds, Edited
<1>8. TreeHolds(g, v)
  BY <1>4, <1>6, NullAssumption DEF Sound, CompactHolds, TreeHolds, SameTree, Version, Garbage
<1>9. DerivedHolds(g, v)
  BY <1>4, <1>6 DEF Sound, DerivedHolds, GraphIsCurrent, SameDerived
<1>10. Sound(g, v)
  BY <1>4, <1>5, <1>6, <1>7, <1>8, <1>9 DEF Sound, SameTree, SameDocument
<1>11. QED
  BY <1>4, <1>6, <1>10 DEF SameTree

\* The start of sqlparser_apply_patch.
LEMMA BeginApplyBegins ==
    ASSUME HandleInvariant, BeginApply
    PROVE  /\ HandleInvariant' /\ batch' # NULL /\ batch'.before = document
           /\ batch'.original = handle.generation /\ answer' = NULL /\ document' = document
           /\ handle' # NULL /\ ~handle'.failed
<1> DEFINE complete == handle.generation = 0 \/ handle.complete
           edits == IF complete THEN handle.edits ELSE NULL
<1>1. Idle /\ answer' = NULL /\ UNCHANGED <<document, view>>
  BY DEF BeginApply
<1>2. PICK n \in Counts(1), rhs \in BOOLEAN, introduces \in BOOLEAN :
        /\ batch' = [left |-> n, original |-> handle.generation, before |-> document,
                     edits |-> edits, complete |-> complete, pending |-> 0, defer |-> 0,
                     rhs |-> rhs, stage |-> "next", kind |-> "other", source |-> FALSE]
        /\ handle' \in BatchHandles(handle, introduces)
  BY DEF BeginApply
<1>3. /\ n \in Nat /\ n >= 1 /\ document + n <= MaxDocument /\ document \in Nat
      /\ document \in Version /\ document \in 0..MaxDocument /\ handle.generation \in Nat
  BY <1>1, IdleFacts, BoundAssumption DEF Counts
<1>4. /\ Sound(handle', document) /\ handle'.generation = handle.generation
      /\ handle'.sql = handle.sql
      /\ handle'.compact = NULL /\ handle'.edits = NULL /\ handle'.flags = {"ACTIVE", "IN_PLACE"}
  BY <1>1, <1>2, IdleFacts, BatchHandlesFacts
<1>5. complete \in BOOLEAN /\ edits \in SourceEdits \cup {NULL}
      /\ (complete => Edited(handle.sql, edits) = document)
      /\ (~complete => edits = NULL)
  BY <1>1, IdleFacts DEF Sound, SourceHolds, Handle
<1> HIDE DEF complete, edits
<1>6. batch' \in Batch
  BY <1>2, <1>3, <1>5 DEF Batch, Stages, Kinds
<1>7. /\ batch'.left = n /\ batch'.original = handle.generation /\ batch'.before = document
      /\ batch'.edits = edits /\ batch'.complete = complete /\ batch'.pending = 0
      /\ batch'.stage = "next"
  BY <1>2
<1>8. HandleDuring(handle', batch', document')
  BY <1>1, <1>4, <1>5, <1>7 DEF HandleDuring, Shown, Dirty
<1>9. StageHolds(handle', batch')
  BY <1>7 DEF StageHolds
<1>10. Counted(handle', batch', document')
  BY <1>1, <1>3, <1>4, <1>7 DEF Counted, Todo
<1>11. /\ handle' # NULL /\ ~handle'.failed /\ handle' \in Handle
       /\ batch' # NULL /\ view' \in View \cup {NULL}
       /\ view' # NULL => view'.generation <= batch'.original
  BY <1>1, <1>4, <1>6, <1>7, IdleFacts, SoundIsLive, NoListIsNull
<1>12. TypeOK'
  BY <1>1, <1>3, <1>6, <1>11 DEF TypeOK, VersionOrNull
<1>13. WithinList'
  BY <1>1, <1>3, <1>7, <1>8, <1>9, <1>10, <1>11 DEF WithinList
<1>14. QED
  BY <1>1, <1>7, <1>11, <1>12, <1>13 DEF HandleInvariant, Idle, Live

-----------------------------------------------------------------------------
(* Rebuilding the text within a list.                                      *)

\* The handle of a running list is sound for a version.
LEMMA ShownIsVersion ==
    ASSUME NEW h, NEW b \in Batch, NEW d \in Nat, HandleDuring(h, b, d)
    PROVE  Shown(h, b, d) \in Version /\ Sound(h, Shown(h, b, d))
<1>1. CASE b.pending = 0
  BY <1>1 DEF HandleDuring, Shown, Version
<1>2. CASE b.pending # 0
  <2>1. b.complete /\ b.edits # NULL /\ Edited(h.sql, b.edits) = d
    BY <1>2 DEF HandleDuring
  <2>2. b.edits \in SourceEdits
    BY <2>1 DEF Batch
  <2>3. b.edits.base = h.sql
    BY <2>1 DEF Edited, Garbage
  <2>4. QED
    BY <1>2, <2>2, <2>3 DEF HandleDuring, Shown, SourceEdits
<1>3. QED
  BY <1>1, <1>2

\* However the text is rebuilt (reparsed, or with strings or literals changed in
\* place), the handle holds the new text in every form.
LEMMA RebuildsFacts ==
    ASSUME NEW h, NEW u \in Version, Sound(h, u), ~Dirty(h), NEW v \in Version,
           NEW g \in Rebuilds(h, v)
    PROVE  /\ Sound(g, v) /\ g.generation = h.generation + 1
           /\ g.sql = v /\ g.edits = NULL /\ g.complete /\ g.compact = NULL /\ ~Dirty(g)
           /\ h.flags \cap {"ACTIVE", "AST_DIRTY"} = {} => g.flags \cap {"ACTIVE", "AST_DIRTY"} = {}
<1>1. h \in Handle /\ (h.multi # NULL => ~h.control)
  BY DEF Sound
<1>2. CASE \E r \in ParserChoices(h) : g = Reparse(h, v, r)
  <2>1. PICK r \in ParserChoices(h) : g = Reparse(h, v, r)
    BY <1>2
  <2>2. r \in {"LEGACY_WIRE", "OWNED_AST"}
    BY DEF ParserChoices
  <2>3. /\ Sound(g, v) /\ g.generation = h.generation + 1
        /\ g.sql = v /\ g.edits = NULL /\ g.complete /\ g.compact = NULL
        /\ g.flags = h.flags \cap {"ACTIVE", "IN_PLACE"}
    BY <1>1, <2>1, <2>2, ReparseFacts
  <2>4. QED
    BY <2>3 DEF Dirty
<1>3. CASE CanCommitStrings(h) /\ g = CommitMultiInsertStrings(h, v)
  BY <1>3, CommitBranchStringsFacts DEF Dirty
<1>4. CASE CanRebase(h) /\ g = CommitRebasedSource(h, v)
  <2>1. /\ Sound(g, v) /\ g.generation = h.generation + 1
        /\ g.sql = v /\ g.edits = NULL /\ g.complete /\ g.compact = NULL
        /\ g.flags = IF "ACTIVE" \in h.flags THEN h.flags \cup {"AST_DIRTY"}
                                             ELSE h.flags \ {"AST_DIRTY"}
    BY <1>4, RebaseFacts
  <2>2. QED
    BY <2>1 DEF Dirty
<1>5. QED
  BY <1>2, <1>3, <1>4 DEF Rebuilds

\* The list goes on at "next" with its edits turned into text of version d.
Rebuilt(next, d) ==
  /\ batch' \in Batch
  /\ batch'.edits = NULL /\ batch'.complete /\ batch'.pending = 0
  /\ batch'.left = next.left /\ batch'.stage = next.stage /\ batch'.kind = next.kind
  /\ batch'.original = next.original /\ batch'.before = next.before
  /\ HandleDuring(handle', batch', d)
  /\ handle'.generation >= handle.generation
  /\ ~Dirty(handle')
  /\ handle.flags \cap {"ACTIVE", "AST_DIRTY"} = {}
       => handle'.flags \cap {"ACTIVE", "AST_DIRTY"} = {}

\* sqlparser_patch_materialize_surface_edits.
LEMMA MaterializeEditsRebuilds ==
    ASSUME HandleInvariant, Live, batch # NULL, ~Dirty(handle), NEW edits, NEW next \in Batch,
           NEW d \in Nat, Edited(handle.sql, edits) = d, MaterializeEdits(edits, next)
    PROVE  Rebuilt(next, d)
<1> DEFINE u == Shown(handle, batch, document)
<1>1. u \in Version /\ Sound(handle, u) /\ handle.generation \in Nat
  BY ListFacts, ShownIsVersion DEF WithinList
<1>2. d \in Version
  BY DEF Version
<1>3. /\ Sound(handle', d) /\ handle'.generation = handle.generation + 1
      /\ handle'.sql = d /\ handle'.edits = NULL /\ handle'.complete /\ handle'.compact = NULL
      /\ ~Dirty(handle')
      /\ handle.flags \cap {"ACTIVE", "AST_DIRTY"} = {}
           => handle'.flags \cap {"ACTIVE", "AST_DIRTY"} = {}
  <2>1. handle' \in Rebuilds(handle, d)
    BY DEF MaterializeEdits
  <2> HIDE DEF u
  <2>2. QED
    BY <1>1, <1>2, <2>1, RebuildsFacts
<1>4. batch' = [next EXCEPT !.edits = NULL, !.complete = TRUE, !.pending = 0]
  BY DEF MaterializeEdits
<1>5. /\ batch' \in Batch
      /\ batch'.edits = NULL /\ batch'.complete /\ batch'.pending = 0
      /\ batch'.left = next.left /\ batch'.stage = next.stage /\ batch'.kind = next.kind
      /\ batch'.original = next.original /\ batch'.before = next.before
  <2>1. next \in Batch /\ 0 \in 0..2
    OBVIOUS
  <2>2. QED
    BY ONLY <1>4, <2>1 DEF Batch
<1>6. HandleDuring(handle', batch', d)
  BY <1>3, <1>5 DEF HandleDuring, Shown, Edited
<1>7. handle'.generation >= handle.generation
  BY <1>1, <1>3
<1>8. QED
  BY <1>3, <1>5, <1>6, <1>7 DEF Rebuilt

\* sqlparser_patch_materialize_current_sql.
LEMMA MaterializeCurrentRebuilds ==
    ASSUME HandleInvariant, Live, batch # NULL, batch.pending = 0, NEW next \in Batch,
           next.edits = batch.edits, next.complete = batch.complete, next.pending = 0,
           MaterializeCurrent(next)
    PROVE  Rebuilt(next, document)
<1>1. /\ HandleDuring(handle, batch, document) /\ document \in Nat /\ document \in Version
      /\ handle.generation \in Nat
  BY ListFacts DEF WithinList
<1>2. /\ Sound(handle, document) /\ handle.compact = NULL /\ handle.edits = NULL
      /\ batch.complete => ~Dirty(handle) /\ Edited(handle.sql, batch.edits) = document
      /\ ~batch.complete => batch.edits = NULL
  BY <1>1 DEF HandleDuring, Shown
<1>3. CASE MaterializeEdits(batch.edits, next)
  <2>1. batch.complete
    BY <1>2, <1>3 DEF MaterializeEdits
  <2>2. QED
    BY <1>1, <1>2, <1>3, <2>1, MaterializeEditsRebuilds
<1>4. CASE /\ batch.edits = NULL /\ batch.complete
           /\ handle' = [handle EXCEPT !.complete = TRUE]
           /\ batch' = next
  <2>1. handle.sql = document
    BY <1>2, <1>4 DEF Edited
  <2>2. /\ handle' \in Handle /\ handle'.sql = handle.sql /\ handle'.edits = handle.edits
        /\ handle'.generation = handle.generation /\ handle'.flags = handle.flags
        /\ SameTree(handle', handle) /\ SameDerived(handle', handle)
        /\ SameDocument(handle', handle)
    BY <1>2, <1>4 DEF Sound, Handle, SameTree, SameDerived, SameDocument
  <2>3. SourceHolds(handle', document)
    BY <1>2, <2>1, <2>2 DEF SourceHolds, Edited
  <2>4. TreeHolds(handle', document)
    BY <1>1, <1>2, <2>2, NullAssumption DEF Sound, CompactHolds, TreeHolds, SameTree
  <2>5. DerivedHolds(handle', document)
    BY <1>2, <2>2 DEF Sound, DerivedHolds, GraphIsCurrent, SameDerived
  <2>6. Sound(handle', document)
    BY <1>2, <2>2, <2>3, <2>4, <2>5 DEF Sound, SameTree, SameDocument
  <2>7. ~Dirty(handle') /\ handle'.compact = NULL
    BY <1>2, <1>4, <2>2 DEF Dirty, SameTree
  <2>8. HandleDuring(handle', batch', document)
    BY <1>2, <1>4, <2>1, <2>2, <2>6, <2>7 DEF HandleDuring, Shown, Edited
  <2>9. /\ batch' \in Batch
        /\ batch'.edits = NULL /\ batch'.complete /\ batch'.pending = 0
        /\ batch'.left = next.left /\ batch'.stage = next.stage /\ batch'.kind = next.kind
        /\ batch'.original = next.original /\ batch'.before = next.before
    BY <1>4
  <2>10. handle'.generation >= handle.generation
    BY <1>1, <2>2
  <2>11. handle'.flags = handle.flags
    BY <2>2
  <2>12. QED
    BY <2>7, <2>8, <2>9, <2>10, <2>11 DEF Rebuilt
<1>5. CASE /\ batch.edits = NULL /\ ~batch.complete
           /\ \E r \in ParserChoices(handle) :
                handle' = Reparse(DeparseHandle(handle), DeparseText(handle), r)
           /\ batch' = [next EXCEPT !.complete = TRUE]
  <2> DEFINE h == DeparseHandle(handle)
  <2>1. PICK r \in ParserChoices(handle) : handle' = Reparse(h, DeparseText(handle), r)
    BY <1>5
  <2>2. r \in {"LEGACY_WIRE", "OWNED_AST"}
    BY DEF ParserChoices
  <2>3. /\ DeparseText(handle) = document /\ Sound(h, document) /\ Kept(h, handle)
        /\ h.flags = handle.flags \ {"AST_DIRTY"}
    BY <1>1, <1>2, DeparseFacts
  <2> HIDE DEF h
  <2>4. h \in Handle /\ (h.multi # NULL => ~h.control)
    BY <2>3 DEF Sound
  <2>5. /\ Sound(handle', document) /\ handle'.generation = h.generation + 1
        /\ handle'.sql = document /\ handle'.edits = NULL /\ handle'.complete
        /\ handle'.compact = NULL /\ handle'.flags = h.flags \cap {"ACTIVE", "IN_PLACE"}
    BY <1>1, <2>1, <2>2, <2>3, <2>4, ReparseFacts
  <2>6. /\ batch' \in Batch
        /\ batch'.edits = NULL /\ batch'.complete /\ batch'.pending = 0
        /\ batch'.left = next.left /\ batch'.stage = next.stage /\ batch'.kind = next.kind
        /\ batch'.original = next.original /\ batch'.before = next.before
    BY <1>5 DEF Batch
  <2>7. ~Dirty(handle') /\ handle'.generation >= handle.generation
    BY <1>1, <2>3, <2>5 DEF Dirty, Kept
  <2>8. HandleDuring(handle', batch', document)
    BY <2>5, <2>6, <2>7 DEF HandleDuring, Shown, Edited
  <2>9. handle.flags \cap {"ACTIVE", "AST_DIRTY"} = {}
          => handle'.flags \cap {"ACTIVE", "AST_DIRTY"} = {}
    BY <2>3, <2>5
  <2>10. QED
    BY <2>6, <2>7, <2>8, <2>9 DEF Rebuilt
<1>6. QED
  BY <1>3, <1>4, <1>5 DEF MaterializeCurrent

-----------------------------------------------------------------------------
(* The steps of a patch list (sqlparser_apply_patch) keep the invariant,   *)
(* and to the owner of the handle they are no steps at all until the list  *)
(* commits.  The theorems follow: the invariants of HandleLifecycle, and   *)
(* that it implements PatchedDocument.                                     *)

-----------------------------------------------------------------------------
(* The steps of a list: patches that are edits of the text alone.          *)

\* What the invariant says at a stage.
LEMMA StageFacts ==
    ASSUME HandleInvariant, NEW s, At(s)
    PROVE  /\ Live /\ batch # NULL /\ batch \in Batch /\ batch.stage = s
           /\ HandleDuring(handle, batch, document) /\ StageHolds(handle, batch)
           /\ handle \in Handle /\ handle.generation \in Nat
           /\ document \in Nat /\ document \in Version /\ batch.left \in Nat
<1>1. Live /\ batch # NULL /\ batch.stage = s
  BY DEF At, HandleInvariant, Live
<1>2. QED
  BY <1>1, ListFacts DEF WithinList, Batch

\* A step of the list, by what it changes.
LEMMA ListMove ==
    ASSUME HandleInvariant, batch # NULL, batch' \in Batch, document' \in Nat,
           document' >= document, document' + Todo(batch') = document + Todo(batch),
           HandleDuring(handle', batch', document'), StageHolds(handle', batch'),
           handle'.generation >= handle.generation, batch'.original = batch.original,
           batch'.before = batch.before, UNCHANGED <<view, answer>>
    PROVE  HandleInvariant' /\ StaysInList
<1>1. Live
  BY DEF HandleInvariant, Live
<1>2. TypeOK /\ WithinList /\ batch \in Batch /\ document \in Nat /\ handle.generation \in Nat
  BY <1>1, ListFacts
<1>3. handle'.generation \in Nat
  BY SoundIsLive DEF HandleDuring, Handle
<1>4. Counted(handle', batch', document')
  <2>1. Counted(handle, batch, document) /\ batch.before \in Nat /\ batch.original \in Nat
    BY <1>2 DEF WithinList, Batch
  <2>2. Todo(batch) \in Nat /\ Todo(batch') \in Nat
    BY <1>2 DEF Todo, Batch
  <2>3. QED
    BY <1>2, <1>3, <2>1, <2>2, BoundAssumption DEF Counted
<1>5. QED
  BY <1>1, <1>2, <1>4, ListStep

\* Only the place in the list moves.
LEMMA PlaceMove ==
    ASSUME HandleInvariant, batch # NULL, batch' \in Batch, UNCHANGED <<handle, document>>,
           UNCHANGED <<view, answer>>, Todo(batch') = Todo(batch), StageHolds(handle, batch'),
           batch'.original = batch.original, batch'.before = batch.before,
           batch'.edits = batch.edits, batch'.complete = batch.complete,
           batch'.pending = batch.pending
    PROVE  HandleInvariant' /\ StaysInList
<1>1. Live
  BY DEF HandleInvariant, Live
<1>2. /\ WithinList /\ document \in Nat /\ handle.generation \in Nat
  BY <1>1, ListFacts
<1>3. HandleDuring(handle', batch', document')
  BY <1>2 DEF WithinList, HandleDuring, Shown
<1>4. StageHolds(handle', batch') /\ document' \in Nat /\ document' >= document
      /\ document' + Todo(batch') = document + Todo(batch)
      /\ handle'.generation >= handle.generation
  BY <1>2
<1>5. QED
  BY <1>3, <1>4, ListMove

\* The handle moved between forms, and the place in the list with it.
LEMMA KeptMove ==
    ASSUME HandleInvariant, batch # NULL, batch' \in Batch, UNCHANGED document,
           UNCHANGED <<view, answer>>, Todo(batch') = Todo(batch), StageHolds(handle', batch'),
           batch'.original = batch.original, batch'.before = batch.before,
           batch'.edits = batch.edits, batch'.complete = batch.complete,
           batch'.pending = batch.pending,
           Sound(handle', Shown(handle, batch, document)), Kept(handle', handle),
           Dirty(handle') <=> Dirty(handle)
    PROVE  HandleInvariant' /\ StaysInList
<1>1. Live
  BY DEF HandleInvariant, Live
<1>2. /\ WithinList /\ document \in Nat /\ handle.generation \in Nat
  BY <1>1, ListFacts
<1>3. HandleDuring(handle', batch', document')
  BY <1>2 DEF WithinList, HandleDuring, Shown, Kept, SameSource
<1>4. document' \in Nat /\ document' >= document
      /\ document' + Todo(batch') = document + Todo(batch)
      /\ handle'.generation >= handle.generation
  BY <1>2 DEF Kept
<1>5. QED
  BY <1>3, <1>4, ListMove

\* The text was rebuilt, of the document with d.
LEMMA RebuiltMove ==
    ASSUME HandleInvariant, batch # NULL, NEW next \in Batch, Rebuilt(next, document'),
           document' \in Nat, document' >= document, UNCHANGED <<view, answer>>,
           document' + Todo(next) = document + Todo(batch), StageHolds(handle', batch'),
           next.original = batch.original, next.before = batch.before
    PROVE  HandleInvariant' /\ StaysInList
<1>1. Todo(batch') = Todo(next)
  BY DEF Rebuilt, Todo
<1>2. QED
  BY <1>1, ListMove DEF Rebuilt

\* The next patch of the list is looked at.
LEMMA TakePatchStep ==
    ASSUME HandleInvariant, TakePatch
    PROVE  HandleInvariant' /\ StaysInList
<1>1. PICK kind \in Kinds, source \in BOOLEAN :
        batch' = [Moved("surface") EXCEPT !.left = @ - 1, !.kind = kind, !.source = source]
  BY DEF TakePatch
<1>2. At("next") /\ batch.left > 0 /\ UNCHANGED <<handle, document, view, answer>>
  BY DEF TakePatch, Quiet
<1>3. batch # NULL /\ batch \in Batch /\ batch.stage = "next" /\ batch.left \in Nat
  BY <1>2, StageFacts
<1>4. batch.left - 1 \in Nat /\ "surface" \in Stages
  BY <1>2, <1>3 DEF Stages
<1>5. batch' = [batch EXCEPT !.stage = "surface", !.left = batch.left - 1, !.kind = kind,
                             !.source = source]
  BY <1>1, <1>3 DEF Moved, Batch
<1>6. /\ batch' \in Batch /\ batch'.stage = "surface" /\ batch'.left = batch.left - 1
      /\ batch'.original = batch.original /\ batch'.before = batch.before
      /\ batch'.edits = batch.edits /\ batch'.complete = batch.complete
      /\ batch'.pending = batch.pending
  BY <1>3, <1>4, <1>5 DEF Batch
<1>7. Todo(batch') = Todo(batch) /\ StageHolds(handle, batch')
  BY <1>3, <1>6 DEF Todo, StageHolds
<1>8. QED
  BY <1>2, <1>3, <1>6, <1>7, PlaceMove

\* sqlparser_patch_can_defer_surface, and the graph it may ask.
LEMMA DeferChoicesFacts ==
    DeferChoices \subseteq 0..2
BY DEF DeferChoices

\* Whether an expression can be deferred is asked of the graph, which keeps
\* the document.
LEMMA ConsultedFacts ==
    ASSUME HandleInvariant, Live, batch # NULL, handle' \in Consulted
    PROVE  /\ Sound(handle', Shown(handle, batch, document)) /\ Kept(handle', handle)
           /\ handle'.flags = handle.flags
<1> DEFINE v == Shown(handle, batch, document)
<1>1. v \in Version /\ Sound(handle, v)
  BY ListFacts, ShownIsVersion DEF WithinList
<1> HIDE DEF v
<1>2. CASE handle' = handle
  BY <1>1, <1>2 DEF Kept, SameSource, SameDocument, v
<1>3. CASE handle' \in GraphReads(handle)
  <2>1. Sound(handle', v) /\ Kept(handle', handle) /\ handle'.flags = handle.flags
    BY <1>1, <1>3, GraphReadsFacts
  <2>2. QED
    BY <2>1 DEF v
<1>4. QED
  BY <1>2, <1>3 DEF Consulted

\* The patch joins the pending edits.
LEMMA KeepPendingStep ==
    ASSUME HandleInvariant, KeepPending
    PROVE  HandleInvariant' /\ StaysInList
<1>1. PICK d \in DeferChoices \ {0} : batch' = [Moved("surface_plan") EXCEPT !.defer = d]
  BY DEF KeepPending
<1>2. /\ At("surface") /\ batch.pending # 0 /\ handle' \in Consulted
      /\ UNCHANGED <<view, answer>> /\ UNCHANGED document
  BY DEF KeepPending, Quiet
<1>3. Live /\ batch # NULL /\ batch \in Batch /\ batch.stage = "surface"
      /\ HandleDuring(handle, batch, document)
  BY <1>2, StageFacts
<1>4. d \in 0..2 /\ "surface_plan" \in Stages
  BY DeferChoicesFacts DEF Stages
<1>5. /\ batch' \in Batch /\ batch'.stage = "surface_plan" /\ batch'.left = batch.left
      /\ batch'.original = batch.original /\ batch'.before = batch.before
      /\ batch'.edits = batch.edits /\ batch'.complete = batch.complete
      /\ batch'.pending = batch.pending
  BY <1>1, <1>3, <1>4 DEF Batch, Moved
<1>6. batch.complete
  BY <1>2, <1>3 DEF HandleDuring
<1>7. Todo(batch') = Todo(batch) /\ StageHolds(handle', batch')
  BY <1>2, <1>3, <1>5, <1>6 DEF Todo, StageHolds
<1>8. Sound(handle', Shown(handle, batch, document)) /\ Kept(handle', handle)
      /\ (Dirty(handle') <=> Dirty(handle))
  BY <1>2, <1>3, ConsultedFacts DEF Dirty
<1>9. QED
  BY <1>2, <1>3, <1>5, <1>7, <1>8, KeptMove
\* A rebuild leaves what the later stages of a list ask for.
LEMMA RebuiltHolds ==
    ASSUME NEW next, NEW d, Rebuilt(next, d),
           next.stage \in {"end", "tail", "rhs", "commit"} => next.left = 0,
           next.stage \in {"tail", "rhs", "commit"}
             => handle.flags \cap {"ACTIVE", "AST_DIRTY"} = {}
    PROVE  StageHolds(handle', batch')
BY DEF Rebuilt, StageHolds

\* Pending edits lead from the text to the document.
LEMMA PendingFacts ==
    ASSUME HandleInvariant, Live, batch # NULL, batch.pending # 0 \/ batch.complete
    PROVE  /\ batch.complete /\ Edited(handle.sql, batch.edits) = document /\ ~Dirty(handle)
           /\ handle.edits = NULL /\ handle.compact = NULL
BY ListFacts DEF WithinList, HandleDuring

\* A patch of another kind comes: the pending edits become text.
LEMMA EndPendingStep ==
    ASSUME HandleInvariant, EndPending
    PROVE  HandleInvariant' /\ StaysInList
<1>1. /\ At("surface") /\ batch.pending # 0 /\ MaterializeEdits(batch.edits, batch)
      /\ UNCHANGED document /\ UNCHANGED <<view, answer>>
  BY DEF EndPending, Quiet
<1>2. Live /\ batch # NULL /\ batch \in Batch /\ batch.stage = "surface" /\ document \in Nat
  BY <1>1, StageFacts
<1>3. Rebuilt(batch, document)
  BY <1>1, <1>2, PendingFacts, MaterializeEditsRebuilds
<1>4. StageHolds(handle', batch')
  BY <1>2, <1>3, RebuiltHolds
<1>5. QED
  BY <1>1, <1>2, <1>3, <1>4, RebuiltMove

\* A batch at another stage.
LEMMA MovedFacts ==
    ASSUME batch \in Batch, NEW s \in Stages
    PROVE  /\ Moved(s) \in Batch /\ Moved(s).stage = s /\ Moved(s).left = batch.left
           /\ Moved(s).original = batch.original /\ Moved(s).before = batch.before
           /\ Moved(s).edits = batch.edits /\ Moved(s).complete = batch.complete
           /\ Moved(s).pending = batch.pending /\ Moved(s).defer = batch.defer
           /\ Moved(s).kind = batch.kind /\ Moved(s).source = batch.source
           /\ Moved(s).rhs = batch.rhs
BY DEF Moved, Batch

\* An edit of the text needs a complete text: an expression has it rebuilt first.
LEMMA OpenSurfaceStep ==
    ASSUME HandleInvariant, OpenSurface
    PROVE  HandleInvariant' /\ StaysInList
<1>1. /\ At("surface") /\ batch.pending = 0 /\ UNCHANGED document /\ UNCHANGED <<view, answer>>
  BY DEF OpenSurface, Quiet
<1>2. Live /\ batch # NULL /\ batch \in Batch /\ batch.stage = "surface" /\ document \in Nat
  BY <1>1, StageFacts
<1>3. "defer" \in Stages /\ "multi" \in Stages
  BY DEF Stages
<1>4. CASE MaterializeCurrent(Moved("defer"))
  <2>1. Rebuilt(Moved("defer"), document)
    BY <1>1, <1>2, <1>3, <1>4, MovedFacts, MaterializeCurrentRebuilds
  <2>2. StageHolds(handle', batch')
    BY <1>2, <1>3, <2>1, MovedFacts, RebuiltHolds
  <2>3. Todo(Moved("defer")) = Todo(batch)
    BY <1>2, <1>3, MovedFacts DEF Todo
  <2>4. QED
    BY <1>1, <1>2, <1>3, <2>1, <2>2, <2>3, MovedFacts, RebuiltMove
<1>5. CASE /\ batch' \in {Moved("defer"), Moved("multi")} /\ UNCHANGED handle
           /\ batch' = Moved("defer") => batch.complete /\ batch.edits = NULL
  <2>1. /\ batch' \in Batch /\ batch'.stage \in {"defer", "multi"} /\ batch'.left = batch.left
        /\ batch'.original = batch.original /\ batch'.before = batch.before
        /\ batch'.edits = batch.edits /\ batch'.complete = batch.complete
        /\ batch'.pending = batch.pending
        /\ batch'.stage = "defer" => batch.complete /\ batch.edits = NULL
    BY <1>2, <1>3, <1>5, MovedFacts
  <2>2. Todo(batch') = Todo(batch)
    BY <1>2, <2>1 DEF Todo
  <2>3. StageHolds(handle, batch')
    BY <1>1, <2>1 DEF StageHolds
  <2>4. QED
    BY <1>1, <1>2, <1>5, <2>1, <2>2, <2>3, PlaceMove
<1>6. Moved("defer") # Moved("multi")
  BY <1>2, <1>3, MovedFacts
<1>7. QED
  BY <1>4, <1>5, <1>6 DEF OpenSurface

\* The patch is planned as an edit of the text, or goes to the tree.
LEMMA ChooseDeferStep ==
    ASSUME HandleInvariant, ChooseDefer
    PROVE  HandleInvariant' /\ StaysInList
<1>1. PICK d \in DeferChoices :
        batch' = [Moved(IF d # 0 \/ batch.kind = "expression" THEN "surface_plan" ELSE "multi")
                    EXCEPT !.defer = d]
  BY DEF ChooseDefer
<1>2. /\ At("defer") /\ handle' \in Consulted
      /\ UNCHANGED <<view, answer>> /\ UNCHANGED document
  BY DEF ChooseDefer, Quiet
<1>3. Live /\ batch # NULL /\ batch \in Batch /\ batch.stage = "defer"
      /\ StageHolds(handle, batch)
  BY <1>2, StageFacts
<1>4. d \in 0..2 /\ "surface_plan" \in Stages /\ "multi" \in Stages
  BY DeferChoicesFacts DEF Stages
<1>5. /\ batch' \in Batch /\ batch'.stage \in {"surface_plan", "multi"} /\ batch'.left = batch.left
      /\ batch'.original = batch.original /\ batch'.before = batch.before
      /\ batch'.edits = batch.edits /\ batch'.complete = batch.complete
      /\ batch'.pending = batch.pending
  BY <1>1, <1>3, <1>4 DEF Batch, Moved
<1>6. batch.complete /\ batch.edits = NULL /\ batch.pending = 0
  BY <1>3 DEF StageHolds
<1>7. Todo(batch') = Todo(batch) /\ StageHolds(handle', batch')
  BY <1>3, <1>5, <1>6 DEF Todo, StageHolds
<1>8. Sound(handle', Shown(handle, batch, document)) /\ Kept(handle', handle)
      /\ (Dirty(handle') <=> Dirty(handle))
  BY <1>2, <1>3, ConsultedFacts DEF Dirty
<1>9. QED
  BY <1>2, <1>3, <1>5, <1>7, <1>8, KeptMove

\* An edit planned over the text as the list has it so far makes the next version.
LEMMA PlannedEditFacts ==
    ASSUME HandleInvariant, Live, batch # NULL, batch.complete
    PROVE  /\ PlannedEdit(document) \in SourceEdits
           /\ Edited(handle.sql, PlannedEdit(document)) = document + 1
<1>1. /\ document \in Nat /\ handle \in Handle /\ batch \in Batch
      /\ Edited(handle.sql, batch.edits) = document
  BY ListFacts, PendingFacts
<1> DEFINE base == IF batch.edits = NULL THEN handle.sql ELSE batch.edits.base
<1>2. base = handle.sql /\ base \in Version
  <2>1. CASE batch.edits = NULL
    BY <1>1, <2>1 DEF Edited, Version
  <2>2. CASE batch.edits # NULL
    BY <1>1, <2>2 DEF Edited, Batch, SourceEdits, Garbage
  <2>3. QED
    BY <2>1, <2>2
<1>3. PlannedEdit(document) = [base |-> base, text |-> document + 1]
  BY <1>1 DEF PlannedEdit, Patched
<1> HIDE DEF base
<1>4. PlannedEdit(document) \in SourceEdits /\ PlannedEdit(document).base = handle.sql
      /\ PlannedEdit(document).text = document + 1
  BY <1>1, <1>2, <1>3 DEF SourceEdits, Version
<1>5. PlannedEdit(document) # NULL
  BY <1>4, NullAssumption
<1>6. QED
  BY <1>4, <1>5 DEF Edited

\* sqlparser_patch_plan_surface_edit: the edit stays pending, or becomes text with
\* those before it.
LEMMA PlanSurfaceStep ==
    ASSUME HandleInvariant, PlanSurface
    PROVE  HandleInvariant' /\ StaysInList
<1> DEFINE planned == PlannedEdit(document)
           next == [Moved("next") EXCEPT !.edits = planned, !.defer = 0]
<1>1. /\ At("surface_plan") /\ document' = document + 1 /\ UNCHANGED <<view, answer>>
  BY DEF PlanSurface, PatchDone, Quiet
<1>2. /\ Live /\ batch # NULL /\ batch \in Batch /\ batch.stage = "surface_plan"
      /\ StageHolds(handle, batch) /\ HandleDuring(handle, batch, document)
      /\ document \in Nat /\ batch.left \in Nat /\ handle.generation \in Nat
  BY <1>1, StageFacts
<1>3. batch.complete /\ (batch.pending = 0 => batch.edits = NULL)
  BY <1>2 DEF StageHolds
<1>4. planned \in SourceEdits /\ planned # NULL /\ Edited(handle.sql, planned) = document + 1
  BY <1>2, <1>3, PlannedEditFacts, NullAssumption
<1>5. "next" \in Stages /\ 0 \in 0..2
  BY DEF Stages
<1> HIDE DEF planned
<1>6. /\ next \in Batch /\ next.stage = "next" /\ next.left = batch.left
      /\ next.original = batch.original /\ next.before = batch.before
      /\ next.edits = planned /\ next.complete /\ next.pending = batch.pending
  <2>1. /\ Moved("next") \in Batch /\ Moved("next").stage = "next"
        /\ Moved("next").left = batch.left /\ Moved("next").original = batch.original
        /\ Moved("next").before = batch.before /\ Moved("next").complete
        /\ Moved("next").pending = batch.pending
    BY <1>2, <1>3, <1>5, MovedFacts
  <2>2. QED
    BY ONLY <1>4, <1>5, <2>1 DEF next, Batch
<1> HIDE DEF next
<1>7. document' \in Nat /\ document' >= document /\ document' + Todo(next) = document + Todo(batch)
  BY <1>1, <1>2, <1>6 DEF Todo
<1>8. CASE MaterializeEdits(planned, next)
  <2>1. Rebuilt(next, document')
    BY <1>1, <1>2, <1>3, <1>4, <1>6, <1>7, <1>8, PendingFacts, MaterializeEditsRebuilds
  <2>2. StageHolds(handle', batch')
    BY <1>6, <2>1, RebuiltHolds
  <2>3. QED
    BY <1>1, <1>2, <1>6, <1>7, <2>1, <2>2, RebuiltMove
<1>9. CASE \E preserves \in {batch.defer} \ {0} :
             /\ batch' = [next EXCEPT !.pending = IF @ = 1 THEN 1 ELSE preserves]
             /\ UNCHANGED handle
  <2>1. PICK p \in {1, 2} : batch' = [next EXCEPT !.pending = p] /\ UNCHANGED handle
    <3>1. PICK preserves \in {batch.defer} \ {0} :
            /\ batch' = [next EXCEPT !.pending = IF @ = 1 THEN 1 ELSE preserves]
            /\ UNCHANGED handle
      BY <1>9
    <3>2. batch' = [next EXCEPT !.pending = IF batch.pending = 1 THEN 1 ELSE preserves]
      BY <1>6, <3>1 DEF Batch
    <3>3. preserves \in {1, 2}
      BY <1>2, <3>1 DEF Batch
    <3>4. QED
      BY <3>1, <3>2, <3>3
  <2>2. /\ batch' \in Batch /\ batch'.stage = "next" /\ batch'.left = batch.left
        /\ batch'.original = batch.original /\ batch'.before = batch.before
        /\ batch'.edits = planned /\ batch'.complete /\ batch'.pending # 0
    <3>1. p \in 0..2 /\ p # 0
      OBVIOUS
    <3>2. QED
      BY ONLY <1>6, <2>1, <3>1 DEF Batch
  <2>3. Sound(handle, handle.sql)
    BY <1>2, <1>3 DEF HandleDuring, Shown, Edited
  <2>4. HandleDuring(handle', batch', document')
    BY <1>1, <1>2, <1>3, <1>4, <2>1, <2>2, <2>3 DEF HandleDuring, Shown
  <2>5. StageHolds(handle', batch')
    BY <2>2 DEF StageHolds
  <2>6. Todo(batch') = Todo(next)
    BY <1>6, <2>2 DEF Todo
  <2>7. handle'.generation >= handle.generation
    BY <1>2, <2>1
  <2>8. QED
    BY <1>1, <1>2, <1>7, <2>2, <2>4, <2>5, <2>6, <2>7, ListMove
<1>10. QED
  BY <1>8, <1>9 DEF PlanSurface, next, planned

\* The edit cannot be planned: it is retried over new text, or made in the tree.
LEMMA SurfaceUnsupportedStep ==
    ASSUME HandleInvariant, SurfaceUnsupported
    PROVE  HandleInvariant' /\ StaysInList
<1> DEFINE next(s) == [Moved(s) EXCEPT !.defer = 0]
<1>1. /\ At("surface_plan") /\ UNCHANGED document /\ UNCHANGED <<view, answer>>
  BY DEF SurfaceUnsupported, Quiet
<1>2. /\ Live /\ batch # NULL /\ batch \in Batch /\ batch.stage = "surface_plan"
      /\ StageHolds(handle, batch) /\ document \in Nat /\ batch.left \in Nat
  BY <1>1, StageFacts
<1>3. batch.complete
  BY <1>2 DEF StageHolds
<1>4. ASSUME NEW s \in {"defer", "multi"}
      PROVE  /\ next(s) \in Batch /\ next(s).stage = s /\ next(s).left = batch.left
             /\ next(s).original = batch.original /\ next(s).before = batch.before
             /\ next(s).edits = batch.edits /\ next(s).complete = batch.complete
             /\ next(s).pending = batch.pending /\ Todo(next(s)) = Todo(batch)
  <2>1. s \in Stages /\ 0 \in 0..2
    BY DEF Stages
  <2>2. /\ next(s) \in Batch /\ next(s).stage = s /\ next(s).left = batch.left
        /\ next(s).original = batch.original /\ next(s).before = batch.before
        /\ next(s).edits = batch.edits /\ next(s).complete = batch.complete
        /\ next(s).pending = batch.pending
    BY <1>2, <2>1 DEF Moved, Batch
  <2>3. QED
    BY <1>2, <2>2 DEF Todo
<1> HIDE DEF next
<1>5. CASE MaterializeEdits(batch.edits, next("defer"))
  <2>1. Rebuilt(next("defer"), document)
    BY <1>2, <1>3, <1>4, <1>5, PendingFacts, MaterializeEditsRebuilds
  <2>2. StageHolds(handle', batch')
    BY <1>4, <2>1, RebuiltHolds
  <2>3. QED
    BY <1>1, <1>2, <1>4, <2>1, <2>2, RebuiltMove
<1>6. CASE batch.pending = 0 /\ batch' = next("multi") /\ UNCHANGED handle
  <2>1. StageHolds(handle, batch')
    BY <1>4, <1>6 DEF StageHolds
  <2>2. QED
    BY <1>1, <1>2, <1>4, <1>6, <2>1, PlaceMove
<1>7. QED
  BY <1>5, <1>6 DEF SurfaceUnsupported, next

-----------------------------------------------------------------------------
(* The steps of a list: patches that change the tree.                      *)

\* Before the operation the text is brought up to date with the side state.
LEMMA ChooseMultiInsertStep ==
    ASSUME HandleInvariant, ~RepeatRebuilds, ChooseMultiInsert
    PROVE  HandleInvariant' /\ StaysInList
<1>1. /\ At("multi") /\ UNCHANGED document /\ UNCHANGED <<view, answer>>
  BY DEF ChooseMultiInsert, Quiet
<1>2. /\ Live /\ batch # NULL /\ batch \in Batch /\ batch.stage = "multi"
      /\ StageHolds(handle, batch) /\ document \in Nat /\ batch.left \in Nat
  BY <1>1, StageFacts
<1>3. batch.pending = 0 /\ "operate" \in Stages
  BY <1>2 DEF StageHolds, Stages
<1>4. /\ Moved("operate") \in Batch /\ Moved("operate").stage = "operate"
      /\ Moved("operate").left = batch.left
      /\ Moved("operate").original = batch.original /\ Moved("operate").before = batch.before
      /\ Moved("operate").edits = batch.edits /\ Moved("operate").complete = batch.complete
      /\ Moved("operate").pending = 0 /\ Moved("operate").kind = batch.kind
      /\ Todo(Moved("operate")) = Todo(batch)
  BY <1>2, <1>3, MovedFacts DEF Todo
<1>5. CASE MaterializeCurrent(Moved("operate"))
  <2>1. Rebuilt(Moved("operate"), document)
    BY <1>2, <1>3, <1>4, <1>5, MaterializeCurrentRebuilds
  <2>2. StageHolds(handle', batch')
    BY <1>4, <2>1, RebuiltHolds
  <2>3. QED
    BY <1>1, <1>2, <1>4, <2>1, <2>2, RebuiltMove
<1>6. CASE /\ batch' = Moved("operate") /\ UNCHANGED handle
           /\ batch.kind \in {"cell", "columns"} /\ handle.multi # NULL => MayRebuild
  <2>1. StageHolds(handle, batch')
    BY <1>4, <1>6 DEF StageHolds, MayRebuild
  <2>2. QED
    BY <1>1, <1>2, <1>3, <1>4, <1>6, <2>1, PlaceMove
<1>7. CASE batch' = [Moved("operate") EXCEPT !.defer = 1] /\ UNCHANGED handle
  <2>1. /\ batch' \in Batch /\ batch'.stage = "operate" /\ batch'.left = batch.left
        /\ batch'.original = batch.original /\ batch'.before = batch.before
        /\ batch'.edits = batch.edits /\ batch'.complete = batch.complete
        /\ batch'.pending = 0 /\ batch'.defer = 1
    <3>1. 1 \in 0..2
      OBVIOUS
    <3>2. QED
      BY <1>4, <1>7, <3>1 DEF Batch
  <2>2. StageHolds(handle, batch') /\ Todo(batch') = Todo(batch)
    BY <1>2, <2>1 DEF StageHolds, Todo
  <2>3. QED
    BY <1>1, <1>2, <1>3, <1>7, <2>1, <2>2, PlaceMove
<1>8. QED
  BY <1>5, <1>6, <1>7 DEF ChooseMultiInsert

\* Earlier edits become text before the operation.
LEMMA MaterializeEarlierStep ==
    ASSUME HandleInvariant, MaterializeEarlier
    PROVE  HandleInvariant' /\ StaysInList
<1>1. /\ At("operate") /\ batch.complete /\ MaterializeEdits(batch.edits, batch)
      /\ UNCHANGED document /\ UNCHANGED <<view, answer>>
  BY DEF MaterializeEarlier, Operates, Quiet
<1>2. Live /\ batch # NULL /\ batch \in Batch /\ batch.stage = "operate" /\ document \in Nat
  BY <1>1, StageFacts
<1>3. Rebuilt(batch, document)
  BY <1>1, <1>2, PendingFacts, MaterializeEditsRebuilds
<1>4. StageHolds(handle', batch')
  BY <1>2, <1>3, RebuiltHolds
<1>5. QED
  BY <1>1, <1>2, <1>3, <1>4, RebuiltMove

\* What an operation finds: no edit is pending, the handle holds the document.
LEMMA OperateFacts ==
    ASSUME HandleInvariant, At("operate")
    PROVE  /\ Live /\ batch # NULL /\ batch \in Batch /\ batch.stage = "operate"
           /\ batch.left \in Nat /\ handle.generation \in Nat /\ batch.pending = 0
           /\ document \in Nat /\ document \in Version /\ document + 1 \in Version
           /\ Sound(handle, document) /\ handle.compact = NULL /\ handle.edits = NULL
           /\ Dirty(handle) => ~handle.complete
           /\ batch.complete => ~Dirty(handle)
           /\ ~batch.complete => batch.edits = NULL
<1>1. /\ Live /\ batch # NULL /\ batch \in Batch /\ batch.stage = "operate"
      /\ HandleDuring(handle, batch, document) /\ StageHolds(handle, batch)
      /\ document \in Nat /\ document \in Version
      /\ batch.left \in Nat /\ handle.generation \in Nat
  BY StageFacts
<1>2. batch.pending = 0
  BY <1>1 DEF StageHolds
<1>3. QED
  BY <1>1, <1>2 DEF HandleDuring, Shown, Version

\* After an operation the list either keeps its source edits, the new one with
\* them, or gives them up: then the handle alone has the document.
KeepsSource ==
  /\ batch.complete /\ batch' = Finished([batch EXCEPT !.edits = PlannedEdit(document)])
  /\ handle'.sql = handle.sql /\ ~Dirty(handle')

GivesSourceUp ==
  \/ batch' = Finished(WithoutSource(batch))
  \/ ~batch.complete /\ batch' = Finished(batch)

\* The operation of a patch is done and the list goes on.
LEMMA FinishedMove ==
    ASSUME HandleInvariant, At("operate"), PatchDone, Quiet, KeepsSource \/ GivesSourceUp,
           Sound(handle', document + 1), handle'.compact = NULL, handle'.edits = NULL,
           Dirty(handle') => ~handle'.complete, handle'.generation >= handle.generation
    PROVE  HandleInvariant' /\ StaysInList
<1>1. /\ document' = document + 1 /\ UNCHANGED <<view, answer>>
  BY DEF PatchDone, Quiet
<1>2. "next" \in Stages /\ 0 \in 0..2
  BY DEF Stages
<1>3. /\ batch' \in Batch /\ batch'.stage = "next" /\ batch'.left = batch.left
      /\ batch'.original = batch.original /\ batch'.before = batch.before
      /\ batch'.pending = 0
      /\ \/ /\ batch'.complete /\ batch'.edits = PlannedEdit(document) /\ KeepsSource
         \/ ~batch'.complete /\ batch'.edits = NULL
  <2>1. CASE KeepsSource
    <3>1. PlannedEdit(document) \in SourceEdits
      BY <2>1, OperateFacts, PlannedEditFacts DEF KeepsSource
    <3>2. batch' = [batch EXCEPT !.edits = PlannedEdit(document), !.stage = "next", !.defer = 0]
      BY <2>1, OperateFacts DEF KeepsSource, Finished, Batch
    <3>3. batch \in Batch /\ batch.pending = 0 /\ batch.complete
      BY <2>1, OperateFacts DEF KeepsSource
    <3>4. /\ batch' \in Batch /\ batch'.stage = "next" /\ batch'.left = batch.left
          /\ batch'.original = batch.original /\ batch'.before = batch.before
          /\ batch'.pending = 0 /\ batch'.complete /\ batch'.edits = PlannedEdit(document)
      BY ONLY <1>2, <3>1, <3>2, <3>3 DEF Batch
    <3>5. QED
      BY <2>1, <3>4
  <2>2. CASE GivesSourceUp
    <3>1. batch' = [batch EXCEPT !.edits = NULL, !.complete = FALSE, !.stage = "next",
                                 !.defer = 0]
      BY <2>2, OperateFacts DEF GivesSourceUp, Finished, WithoutSource, Batch
    <3>2. batch \in Batch /\ batch.pending = 0
      BY OperateFacts
    <3>3. /\ batch' \in Batch /\ batch'.stage = "next" /\ batch'.left = batch.left
          /\ batch'.original = batch.original /\ batch'.before = batch.before
          /\ batch'.pending = 0 /\ ~batch'.complete /\ batch'.edits = NULL
      BY ONLY <1>2, <3>1, <3>2 DEF Batch
    <3>4. QED
      BY <3>3
  <2>3. QED
    BY <2>1, <2>2
<1>4. HandleDuring(handle', batch', document')
  <2>1. KeepsSource => Edited(handle.sql, PlannedEdit(document)) = document + 1
    BY OperateFacts, PlannedEditFacts DEF KeepsSource
  <2>2. QED
    BY <1>1, <1>3, <2>1 DEF HandleDuring, Shown, KeepsSource
<1>5. StageHolds(handle', batch')
  BY <1>3 DEF StageHolds
<1>6. document' \in Nat /\ document' >= document
      /\ document' + Todo(batch') = document + Todo(batch)
  BY <1>1, <1>3, OperateFacts DEF Todo
<1>7. QED
  BY <1>1, <1>3, <1>4, <1>5, <1>6, OperateFacts, ListMove

\* A change of the tree makes the next version, and of the text nothing.
LEMMA TreeStep ==
    ASSUME NEW h, NEW v \in Version, NEW w \in Version, Sound(h, v)
    PROVE  LET g == CommitAst(EnsureAst(h), w)
           IN  /\ Sound(g, w) /\ g.generation = h.generation + 1 /\ g.sql = h.sql
               /\ g.edits = NULL /\ ~g.complete /\ g.compact = NULL /\ (Dirty(g) <=> Dirty(h))
<1> DEFINE a == EnsureAst(h)
           g == CommitAst(a, w)
<1>1. /\ Sound(a, v) /\ Kept(a, h) /\ a.flags = h.flags /\ a.compact = NULL /\ a.ast = v
  BY EnsureAstFacts
<1> HIDE DEF a
<1>2. /\ Sound(g, w) /\ g.generation = a.generation + 1
      /\ g.sql = a.sql /\ g.edits = NULL /\ ~g.complete /\ g.compact = NULL
      /\ (Dirty(g) <=> Dirty(a))
  BY <1>1, CommitAstFacts
<1> HIDE DEF g
<1>3. /\ Sound(g, w) /\ g.generation = h.generation + 1 /\ g.sql = h.sql
      /\ g.edits = NULL /\ ~g.complete /\ g.compact = NULL /\ (Dirty(g) <=> Dirty(h))
  BY <1>1, <1>2 DEF Kept, SameSource, Dirty
<1>4. QED
  BY <1>3 DEF a, g

\* How far the handle trusts its text may be set while the text is the document.
LEMMA TrustFacts ==
    ASSUME NEW h, NEW v \in Version, Sound(h, v), h.compact = NULL, h.edits = NULL,
           NEW c \in BOOLEAN, c => h.sql = v
    PROVE  LET g == [h EXCEPT !.complete = c]
           IN  /\ Sound(g, v) /\ g.complete = c /\ g.compact = NULL /\ g.edits = NULL
               /\ g.sql = h.sql /\ g.generation = h.generation /\ g.flags = h.flags
               /\ g.multi = h.multi
<1> DEFINE g == [h EXCEPT !.complete = c]
<1>1. /\ g \in Handle /\ SameTree(g, h) /\ SameDerived(g, h) /\ SameDocument(g, h)
      /\ g.sql = h.sql /\ g.edits = NULL /\ g.generation = h.generation /\ g.flags = h.flags
      /\ g.complete = c
  BY DEF Sound, Handle, SameTree, SameDerived, SameDocument
<1> HIDE DEF g
<1>2. Sound(g, v)
  BY <1>1, AdjustedIsSound
<1>3. QED
  BY <1>1, <1>2 DEF g, SameTree, SameDocument

\* Flags that say nothing of the tree may be set.
LEMMA FlagFacts ==
    ASSUME NEW h, NEW v \in Version, Sound(h, v), h.compact = NULL, h.edits = NULL,
           NEW f \in SUBSET Flags, "AST_DIRTY" \in f <=> "AST_DIRTY" \in h.flags
    PROVE  LET g == [h EXCEPT !.flags = f]
           IN  /\ Sound(g, v) /\ g.complete = h.complete /\ g.compact = NULL /\ g.edits = NULL
               /\ g.sql = h.sql /\ g.generation = h.generation /\ g.flags = f
               /\ g.multi = h.multi
<1> DEFINE g == [h EXCEPT !.flags = f]
<1>1. /\ g \in Handle /\ SameTree(g, h) /\ SameDerived(g, h) /\ SameDocument(g, h)
      /\ g.sql = h.sql /\ g.edits = NULL /\ g.generation = h.generation /\ g.flags = f
      /\ g.complete = h.complete
  BY DEF Sound, Handle, SameTree, SameDerived, SameDocument
<1>2. g.complete => h.sql = v
  BY <1>1 DEF Sound, SourceHolds, Edited
<1> HIDE DEF g
<1>3. Sound(g, v)
  BY <1>1, <1>2, AdjustedIsSound
<1>4. QED
  BY <1>1, <1>3 DEF g, SameTree, SameDocument

\* A relation is renamed in the tree, and the source text given up.
LEMMA RenameRelationStep ==
    ASSUME HandleInvariant, RenameRelation
    PROVE  HandleInvariant' /\ StaysInList
<1> DEFINE h == [handle EXCEPT !.complete = FALSE]
<1>1. /\ At("operate") /\ PatchDone /\ Quiet /\ batch' = Finished(WithoutSource(batch))
      /\ handle' = CommitAst(EnsureAst(h), Patched(EnsureAst(h).ast, document, 1))
  BY DEF RenameRelation, TreeChanged
<1>2. Sound(h, document) /\ h.generation = handle.generation
  BY <1>1, OperateFacts, TrustFacts
<1> HIDE DEF h
<1>3. Patched(EnsureAst(h).ast, document, 1) = document + 1
  BY <1>1, <1>2, OperateFacts, EnsureAstFacts DEF Patched
<1>4. /\ Sound(handle', document + 1) /\ handle'.generation = h.generation + 1
      /\ handle'.edits = NULL /\ ~handle'.complete /\ handle'.compact = NULL
  BY <1>1, <1>2, <1>3, OperateFacts, TreeStep
<1>5. handle'.generation >= handle.generation
  BY <1>1, <1>2, <1>4, OperateFacts
<1>6. QED
  BY <1>1, <1>4, <1>5, FinishedMove DEF GivesSourceUp

\* sqlparser_patch_set_relation_sql.
LEMMA RewriteRelationStep ==
    ASSUME HandleInvariant, RewriteRelation
    PROVE  HandleInvariant' /\ StaysInList
<1>1. /\ At("operate") /\ PatchDone /\ Quiet
      /\ \/ /\ batch.complete
            /\ batch' = Finished([batch EXCEPT !.edits = PlannedEdit(document)])
         \/ batch' = Finished(WithoutSource(batch))
      /\ handle' = CommitAst(EnsureAst(handle), Patched(EnsureAst(handle).ast, document, 1))
  BY DEF RewriteRelation, TreeChanged
<1>2. Patched(EnsureAst(handle).ast, document, 1) = document + 1
  BY <1>1, OperateFacts, EnsureAstFacts DEF Patched
<1>3. /\ Sound(handle', document + 1) /\ handle'.generation = handle.generation + 1
      /\ handle'.sql = handle.sql /\ (Dirty(handle') <=> Dirty(handle))
      /\ handle'.edits = NULL /\ ~handle'.complete /\ handle'.compact = NULL
  BY <1>1, <1>2, OperateFacts, TreeStep
<1>4. handle'.generation >= handle.generation
  BY <1>1, <1>3, OperateFacts
<1>5. KeepsSource \/ GivesSourceUp
  BY <1>1, <1>3, OperateFacts DEF KeepsSource, GivesSourceUp
<1>6. QED
  BY <1>1, <1>3, <1>4, <1>5, FinishedMove

\* A source value is read where the document is.
LEMMA SourceTextIsDocument ==
    ASSUME NEW h, NEW v \in Version, Sound(h, v)
    PROVE  SourceText(h) = v
BY EnsureAstFacts DEF SourceText, Sound, SourceHolds

\* A branch cell is rewritten in the text while that is complete.
LEMMA RewriteBranchCellStep ==
    ASSUME HandleInvariant, RewriteBranchCell
    PROVE  HandleInvariant' /\ StaysInList
<1> DEFINE next == Finished(batch)
<1>1. /\ At("operate") /\ batch.complete /\ document' = document + 1
      /\ UNCHANGED <<view, answer>>
      /\ MaterializeEdits(PlannedEdit(IF batch.source THEN SourceText(handle) ELSE document), next)
  BY DEF RewriteBranchCell, ReadyToOperate, Operates, PatchDone, Quiet
<1>2. MaterializeEdits(PlannedEdit(document), next)
  <2>1. SourceText(handle) = document
    BY <1>1, OperateFacts, SourceTextIsDocument
  <2>2. QED
    BY <1>1, <2>1
<1>3. "next" \in Stages /\ 0 \in 0..2
  BY DEF Stages
<1>4. /\ next \in Batch /\ next.stage = "next" /\ next.left = batch.left
      /\ next.original = batch.original /\ next.before = batch.before
  BY <1>1, <1>3, OperateFacts DEF Finished, Batch
<1> HIDE DEF next
<1>5. document' \in Nat /\ document' >= document /\ document' + Todo(next) = document + Todo(batch)
  BY <1>1, <1>4, OperateFacts DEF Todo
<1>6. Edited(handle.sql, PlannedEdit(document)) = document'
  BY <1>1, OperateFacts, PlannedEditFacts
<1>7. Rebuilt(next, document')
  BY <1>1, <1>2, <1>4, <1>5, <1>6, OperateFacts, MaterializeEditsRebuilds
<1>8. StageHolds(handle', batch')
  BY <1>4, <1>7, RebuiltHolds
<1>9. QED
  BY <1>1, <1>4, <1>5, <1>7, <1>8, OperateFacts, RebuiltMove

\* The handle an operation finds differs at most in how far it trusts its text.
LEMMA OperatedOnFacts ==
    ASSUME HandleInvariant, ReadyToOperate, NEW supported \in BOOLEAN
    PROVE  LET h == OperatedOn(supported)
           IN  /\ Sound(h, document) /\ h.compact = NULL /\ h.edits = NULL
               /\ h.sql = handle.sql /\ h.generation = handle.generation
               /\ h.flags = handle.flags /\ h.multi = handle.multi
               /\ h.complete => h = handle \/ (batch.complete /\ supported)
<1>1. At("operate") /\ (batch.source /\ batch.complete => batch.edits = NULL)
  BY DEF ReadyToOperate, Operates
<1>2. CASE OperatedOn(supported) = handle
  BY <1>1, <1>2, OperateFacts
<1> DEFINE Trusted(c) == [handle EXCEPT !.complete = c]
           StandsFor(g) == /\ Sound(g, document) /\ g.compact = NULL /\ g.edits = NULL
                           /\ g.sql = handle.sql /\ g.generation = handle.generation
                           /\ g.flags = handle.flags /\ g.multi = handle.multi
<1>11. ASSUME NEW c \in BOOLEAN, c => handle.sql = document
       PROVE  StandsFor(Trusted(c)) /\ Trusted(c).complete = c
  <2>1. /\ document \in Version /\ Sound(handle, document)
        /\ handle.compact = NULL /\ handle.edits = NULL
    BY <1>1, OperateFacts
  <2>2. QED
    BY <1>11, <2>1, TrustFacts
<1> HIDE DEF Trusted
<1>3. CASE OperatedOn(supported) = Trusted(FALSE)
  <2>1. StandsFor(Trusted(FALSE)) /\ Trusted(FALSE).complete = FALSE
    BY <1>11
  <2>2. QED
    BY <1>3, <2>1
<1>4. CASE /\ batch.complete /\ supported /\ batch.source
           /\ OperatedOn(supported) = Trusted(TRUE)
  <2>1. handle.sql = document
    BY <1>1, <1>4, OperateFacts, PendingFacts DEF Edited
  <2>2. StandsFor(Trusted(TRUE))
    BY <1>11, <2>1
  <2>3. QED
    BY <1>4, <2>2
<1>5. QED
  BY <1>2, <1>3, <1>4 DEF OperatedOn, Trusted

\* The operation makes the next version, in the tree, in the side state or, from
\* there, in the text.
LEMMA OperatedFacts ==
    ASSUME HandleInvariant, ~RepeatRebuilds, ReadyToOperate, NEW supported \in BOOLEAN,
           supported => (handle.multi # NULL => batch.kind \notin {"cell", "columns"}),
           NEW g \in Operated(OperatedOn(supported))
    PROVE  /\ Sound(g, document + 1) /\ g.generation >= handle.generation
           /\ g.compact = NULL /\ g.edits = NULL
           /\ Dirty(g) => ~g.complete
           /\ supported => g.sql = handle.sql /\ (Dirty(g) <=> Dirty(handle))
<1> DEFINE h == OperatedOn(supported)
           eager == [h EXCEPT !.flags = h.flags \ {"ACTIVE"}]
           rebuilt == RebuildFromState(eager, Changed(h, h.multi))
           deferred == CommitDeferredState(h, Changed(h, h.multi))
           tree(f) == CommitAst(EnsureAst(f), Changed(f, EnsureAst(f).ast))
<1>1. /\ At("operate") /\ batch.stage = "operate" /\ StageHolds(handle, batch)
      /\ document \in Version /\ document + 1 \in Version /\ handle.generation \in Nat
  BY OperateFacts, StageFacts DEF ReadyToOperate, Operates
<1>2. /\ Sound(h, document) /\ h.compact = NULL /\ h.edits = NULL
      /\ h.sql = handle.sql /\ h.generation = handle.generation
      /\ h.flags = handle.flags /\ h.multi = handle.multi
      /\ h.complete => h = handle \/ (batch.complete /\ supported)
  BY OperatedOnFacts
<1>3. \/ handle.multi = NULL /\ g = tree(h)
      \/ handle.multi # NULL /\ g = tree(eager)
      \/ /\ handle.multi # NULL /\ batch.kind \in {"cell", "columns"}
         /\ batch.defer = 0 \/ (batch.kind = "cell" /\ MayRebuild)
         /\ g = rebuilt
      \/ /\ handle.multi # NULL /\ batch.kind \in {"cell", "columns"}
         /\ g = Sized(deferred)
  <2>1. eager = [h EXCEPT !.flags = @ \ {"ACTIVE"}]
    BY <1>2 DEF Sound, Handle
  <2> HIDE DEF h
  <2>2. g \in Operated(h)
    BY DEF h
  <2>3. QED
    BY <2>1, <2>2 DEF Operated
<1> HIDE DEF h
<1>4. /\ Sound(eager, document) /\ eager.complete = h.complete /\ eager.compact = NULL
      /\ eager.edits = NULL /\ eager.sql = h.sql /\ eager.generation = h.generation
      /\ eager.flags = h.flags \ {"ACTIVE"} /\ eager.multi = h.multi
  <2> DEFINE f == h.flags \ {"ACTIVE"}
  <2>1. f \in SUBSET Flags /\ ("AST_DIRTY" \in f <=> "AST_DIRTY" \in h.flags)
    BY <1>2 DEF Sound, Handle
  <2> HIDE DEF f
  <2>2. LET e == [h EXCEPT !.flags = f]
        IN  /\ Sound(e, document) /\ e.complete = h.complete /\ e.compact = NULL
            /\ e.edits = NULL /\ e.sql = h.sql /\ e.generation = h.generation
            /\ e.flags = f /\ e.multi = h.multi
    BY <1>1, <1>2, <2>1, FlagFacts
  <2>3. QED
    BY <2>2 DEF f
<1> HIDE DEF eager
<1>5. ASSUME NEW f, Sound(f, document)
      PROVE  Changed(f, document) = document + 1
  BY <1>1, <1>5, SourceTextIsDocument DEF Changed, Patched
<1>6. ASSUME NEW f \in {h, eager}, g = tree(f)
      PROVE  /\ Sound(g, document + 1) /\ g.generation = handle.generation + 1
             /\ g.compact = NULL /\ g.edits = NULL /\ ~g.complete
             /\ g.sql = handle.sql /\ (Dirty(g) <=> Dirty(handle))
  <2>1. /\ Sound(f, document) /\ f.sql = handle.sql /\ f.generation = handle.generation
        /\ (Dirty(f) <=> Dirty(handle))
    BY <1>2, <1>4, <1>6 DEF Dirty
  <2>2. EnsureAst(f).ast = document
    BY <1>1, <2>1, EnsureAstFacts
  <2>3. g = CommitAst(EnsureAst(f), document + 1)
    BY <1>5, <1>6, <2>1, <2>2
  <2>4. QED
    BY <1>1, <2>1, <2>3, TreeStep
<1> HIDE DEF tree
<1>7. CASE \E f \in {h, eager} : g = tree(f)
  BY <1>1, <1>6, <1>7
<1>8. ASSUME handle.multi # NULL, batch.kind \in {"cell", "columns"}
      PROVE  ~supported /\ h.multi = document /\ Changed(h, h.multi) = document + 1
  BY <1>2, <1>5, <1>8 DEF Sound
<1>9. CASE /\ handle.multi # NULL /\ batch.kind \in {"cell", "columns"}
           /\ batch.defer = 0 \/ (batch.kind = "cell" /\ MayRebuild)
           /\ g = rebuilt
  <2>1. batch.complete \/ ~handle.complete
    BY <1>1, <1>9 DEF StageHolds, MayRebuild
  <2>2. ~h.complete
    <3>1. CASE batch.complete
      <4>1. h = [handle EXCEPT !.complete = FALSE] /\ handle \in Handle
        BY <1>1, <1>8, <1>9, <3>1, OperateFacts, SoundIsLive DEF h, OperatedOn
      <4>2. QED
        BY <4>1 DEF Handle
    <3>2. CASE ~batch.complete
      BY <2>1, <3>2 DEF h, OperatedOn
    <3>3. QED
      BY <3>1, <3>2
  <2>3. g = RebuildFromState(eager, document + 1)
    BY <1>8, <1>9
  <2> HIDE DEF rebuilt
  <2>4. /\ Sound(g, document + 1) /\ g.generation = eager.generation + 2
        /\ g.edits = NULL /\ g.compact = NULL /\ g.flags = eager.flags \cap {"ACTIVE", "IN_PLACE"}
    BY <1>1, <1>2, <1>4, <1>9, <2>2, <2>3, RebuildFromStateFacts
  <2>5. QED
    BY <1>1, <1>2, <1>4, <1>8, <1>9, <2>4 DEF Dirty
<1>10. CASE /\ handle.multi # NULL /\ batch.kind \in {"cell", "columns"}
            /\ g = Sized(deferred)
  <2>1. deferred = CommitDeferredState(h, document + 1)
    BY <1>8, <1>10
  <2> HIDE DEF deferred
  <2>2. /\ Sound(deferred, document + 1) /\ deferred.generation = h.generation + 1
        /\ deferred.edits = NULL /\ ~deferred.complete /\ deferred.compact = NULL
    BY <1>1, <1>2, <1>10, <2>1, DeferredStateFacts
  <2>3. Sound(DeparseHandle(deferred), document + 1) /\ Kept(DeparseHandle(deferred), deferred)
    BY <1>1, <2>2, DeparseFacts
  <2>4. /\ Sound(g, document + 1) /\ g.generation = h.generation + 1
        /\ g.edits = NULL /\ ~g.complete /\ g.compact = NULL
    BY <1>10, <2>2, <2>3 DEF Sized, Kept, SameSource
  <2>5. QED
    BY <1>1, <1>2, <1>8, <1>10, <2>4
<1>11. QED
  BY <1>3, <1>7, <1>9, <1>10

\* The other operations, with their source value, edit and flags.
LEMMA OperateStep ==
    ASSUME HandleInvariant, ~RepeatRebuilds, Operate
    PROVE  HandleInvariant' /\ StaysInList
<1>1. ReadyToOperate /\ At("operate") /\ PatchDone /\ Quiet
  BY DEF Operate, ReadyToOperate, Operates
<1>2. PICK supported \in BOOLEAN, reversed \in BOOLEAN :
        /\ supported => /\ batch.complete
                        /\ handle.multi # NULL => batch.kind \notin {"cell", "columns"}
        /\ \E h \in Operated(OperatedOn(supported)) :
             handle' = [h EXCEPT !.flags = @ \cup {"ACTIVE"},
                                 !.complete = @ /\ ~batch.source]
        /\ batch' = Finished(IF reversed THEN WithoutSource(batch) ELSE BatchAfter(supported))
  BY DEF Operate
<1>3. PICK h \in Operated(OperatedOn(supported)) :
        handle' = [h EXCEPT !.flags = @ \cup {"ACTIVE"}, !.complete = @ /\ ~batch.source]
  BY <1>2
<1>4. /\ Sound(h, document + 1) /\ h.generation >= handle.generation
      /\ h.compact = NULL /\ h.edits = NULL
      /\ Dirty(h) => ~h.complete
      /\ supported => h.sql = handle.sql /\ (Dirty(h) <=> Dirty(handle))
  BY <1>1, <1>2, OperatedFacts
<1>5. document + 1 \in Version
  BY <1>1, OperateFacts
<1>6. /\ handle' \in Handle /\ SameTree(handle', h) /\ SameDerived(handle', h)
      /\ SameDocument(handle', h) /\ handle'.sql = h.sql /\ handle'.edits = NULL
      /\ handle'.generation = h.generation /\ handle'.flags = h.flags \cup {"ACTIVE"}
      /\ handle'.complete => h.complete
  <2> DEFINE trusted == h.complete /\ ~batch.source
             flags == h.flags \cup {"ACTIVE"}
  <2>1. h \in Handle /\ flags \in SUBSET Flags /\ trusted \in BOOLEAN
        /\ (trusted => h.complete)
    BY <1>4 DEF Sound, Handle, Flags
  <2>2. handle' = [h EXCEPT !.flags = flags, !.complete = trusted]
    BY <1>3, <2>1 DEF Handle
  <2> HIDE DEF trusted, flags
  <2>3. handle' \in Handle
    BY ONLY <2>1, <2>2 DEF Handle
  <2>4. /\ SameTree(handle', h) /\ SameDerived(handle', h) /\ SameDocument(handle', h)
        /\ handle'.sql = h.sql /\ handle'.edits = h.edits
        /\ handle'.generation = h.generation /\ handle'.flags = flags
        /\ handle'.complete = trusted
    BY <2>1, <2>2 DEF Handle, SameTree, SameDerived, SameDocument
  <2>5. QED
    BY <1>4, <2>1, <2>3, <2>4 DEF flags
<1>7. handle'.complete => h.sql = document + 1
  BY <1>4, <1>6 DEF Sound, SourceHolds, Edited
<1>8. Sound(handle', document + 1)
  BY <1>4, <1>5, <1>6, <1>7, AdjustedIsSound
<1>9. Dirty(handle') <=> Dirty(h)
  BY <1>6 DEF Dirty
<1>10. KeepsSource \/ GivesSourceUp
  BY <1>1, <1>2, <1>4, <1>6, <1>9, OperateFacts DEF KeepsSource, GivesSourceUp, BatchAfter
<1>11. handle'.compact = NULL
  BY <1>4, <1>6 DEF SameTree
<1>12. QED
  BY <1>1, <1>4, <1>6, <1>8, <1>9, <1>10, <1>11, FinishedMove

-----------------------------------------------------------------------------
(* The end of a list.                                                      *)

\* The last pending edits become text.
LEMMA EndOfPatchesStep ==
    ASSUME HandleInvariant, EndOfPatches
    PROVE  HandleInvariant' /\ StaysInList
<1>1. /\ At("next") /\ batch.left = 0 /\ UNCHANGED document /\ UNCHANGED <<view, answer>>
  BY DEF EndOfPatches, Quiet
<1>2. /\ Live /\ batch # NULL /\ batch \in Batch /\ batch.stage = "next" /\ document \in Nat
      /\ "end" \in Stages
  BY <1>1, StageFacts DEF Stages
<1>3. /\ Moved("end") \in Batch /\ Moved("end").stage = "end" /\ Moved("end").left = 0
      /\ Moved("end").original = batch.original /\ Moved("end").before = batch.before
      /\ Moved("end").edits = batch.edits /\ Moved("end").complete = batch.complete
      /\ Moved("end").pending = batch.pending /\ Todo(Moved("end")) = Todo(batch)
  BY <1>1, <1>2, MovedFacts DEF Todo
<1>4. CASE batch.pending # 0 /\ MaterializeEdits(batch.edits, Moved("end"))
  <2>1. Rebuilt(Moved("end"), document)
    BY <1>2, <1>3, <1>4, PendingFacts, MaterializeEditsRebuilds
  <2>2. StageHolds(handle', batch')
    BY <1>3, <2>1, RebuiltHolds
  <2>3. QED
    BY <1>1, <1>2, <1>3, <2>1, <2>2, RebuiltMove
<1>5. CASE batch.pending = 0 /\ batch' = Moved("end") /\ UNCHANGED handle
  <2>1. StageHolds(handle, batch')
    BY <1>3, <1>5 DEF StageHolds
  <2>2. QED
    BY <1>1, <1>2, <1>3, <1>5, <2>1, PlaceMove
<1>6. QED
  BY <1>4, <1>5 DEF EndOfPatches

\* What the invariant says once all patches are taken.
LEMMA TailFacts ==
    ASSUME HandleInvariant, NEW s \in {"end", "tail", "rhs", "commit"}, At(s)
    PROVE  /\ Live /\ batch # NULL /\ batch \in Batch /\ batch.stage = s
           /\ batch.left = 0 /\ batch.pending = 0
           /\ document \in Nat /\ document \in Version /\ handle.generation \in Nat
           /\ handle \in Handle /\ Sound(handle, document)
           /\ HandleDuring(handle, batch, document) /\ StageHolds(handle, batch)
<1>1. /\ Live /\ batch # NULL /\ batch \in Batch /\ batch.stage = s
      /\ HandleDuring(handle, batch, document) /\ StageHolds(handle, batch)
      /\ handle \in Handle /\ handle.generation \in Nat
      /\ document \in Nat /\ document \in Version
  BY StageFacts
<1>2. batch.pending = 0 /\ batch.left = 0
  BY <1>1 DEF StageHolds
<1>3. QED
  BY <1>1, <1>2 DEF HandleDuring, Shown

\* The tree is packed.
LEMMA FlushStep ==
    ASSUME HandleInvariant, Flush
    PROVE  HandleInvariant' /\ StaysInList
<1> DEFINE h == FlushAst(handle)
           f == h.flags \ {"ACTIVE"}
<1>1. /\ At("end") /\ handle' = [h EXCEPT !.flags = @ \ {"ACTIVE"}] /\ batch' = Moved("tail")
      /\ UNCHANGED document /\ UNCHANGED <<view, answer>>
  BY DEF Flush, Quiet
<1>2. Sound(h, document) /\ Kept(h, handle) /\ h.flags = handle.flags \ {"AST_DIRTY"}
  BY <1>1, TailFacts, FlushFacts
<1>3. handle.compact = NULL /\ handle.edits = NULL
  BY <1>1, TailFacts DEF HandleDuring
<1> HIDE DEF h
<1>4. /\ f \in SUBSET Flags /\ ("AST_DIRTY" \in f <=> "AST_DIRTY" \in h.flags)
      /\ ("MULTI_INSERT_DIRTY" \in f <=> Dirty(handle))
      /\ f \cap {"ACTIVE", "AST_DIRTY"} = {}
  BY <1>2 DEF Sound, Handle, Dirty
<1>5. handle' = [h EXCEPT !.flags = f]
  BY <1>1, <1>2 DEF Sound, Handle
<1> HIDE DEF f
<1>6. /\ Sound(handle', document) /\ handle'.complete = h.complete /\ handle'.compact = NULL
      /\ handle'.edits = NULL /\ handle'.sql = h.sql /\ handle'.generation = h.generation
      /\ handle'.flags = f
  <2>1. h.compact = NULL /\ h.edits = NULL
    BY <1>2, <1>3 DEF Kept, SameSource
  <2>2. document \in Version
    BY <1>1, TailFacts
  <2>3. LET e == [h EXCEPT !.flags = f]
        IN  /\ Sound(e, document) /\ e.complete = h.complete /\ e.compact = NULL
            /\ e.edits = NULL /\ e.sql = h.sql /\ e.generation = h.generation
            /\ e.flags = f
    BY <1>2, <1>4, <2>1, <2>2, FlagFacts
  <2>4. QED
    BY <1>5, <2>3
<1>7. /\ batch' \in Batch /\ batch'.stage = "tail" /\ batch'.left = 0
      /\ batch'.original = batch.original /\ batch'.before = batch.before
      /\ batch'.edits = batch.edits /\ batch'.complete = batch.complete /\ batch'.pending = 0
  BY <1>1, TailFacts, MovedFacts DEF Stages
<1>8. HandleDuring(handle', batch', document')
  BY <1>1, <1>2, <1>4, <1>6, <1>7, TailFacts
     DEF HandleDuring, Shown, Dirty, Kept, SameSource
<1>9. StageHolds(handle', batch')
  BY <1>4, <1>6, <1>7 DEF StageHolds
<1>10. Todo(batch') = Todo(batch) /\ handle'.generation >= handle.generation
  BY <1>1, <1>2, <1>6, <1>7, TailFacts DEF Todo, Kept
<1>11. QED
  BY <1>1, <1>7, <1>8, <1>9, <1>10, TailFacts, ListMove

\* From one stage of the end to the next, with a rebuild or without.
LEMMA TailMove ==
    ASSUME HandleInvariant, NEW s \in {"tail", "rhs"}, At(s),
           NEW t \in {"rhs", "commit"}, Quiet, UNCHANGED document,
           \/ MaterializeCurrent(Moved(t))
           \/ batch' = Moved(t) /\ UNCHANGED handle /\ ~Dirty(handle)
    PROVE  HandleInvariant' /\ StaysInList
<1>1. /\ UNCHANGED <<view, answer>> /\ t \in Stages
      /\ handle.flags \cap {"ACTIVE", "AST_DIRTY"} = {}
  BY TailFacts DEF Quiet, StageHolds, Stages
<1>2. /\ Moved(t) \in Batch /\ Moved(t).stage = t /\ Moved(t).left = 0
      /\ Moved(t).original = batch.original /\ Moved(t).before = batch.before
      /\ Moved(t).edits = batch.edits /\ Moved(t).complete = batch.complete
      /\ Moved(t).pending = 0 /\ Todo(Moved(t)) = Todo(batch)
  BY <1>1, TailFacts, MovedFacts DEF Todo
<1>3. CASE MaterializeCurrent(Moved(t))
  <2>1. Rebuilt(Moved(t), document)
    BY <1>2, <1>3, TailFacts, MaterializeCurrentRebuilds
  <2>2. StageHolds(handle', batch')
    BY <1>1, <1>2, <2>1, RebuiltHolds
  <2>3. QED
    BY <1>1, <1>2, <2>1, <2>2, TailFacts, RebuiltMove
<1>4. CASE batch' = Moved(t) /\ UNCHANGED handle /\ ~Dirty(handle)
  <2>1. StageHolds(handle, batch')
    BY <1>1, <1>2, <1>4 DEF StageHolds
  <2>2. QED
    BY <1>1, <1>2, <1>4, <2>1, TailFacts, PlaceMove
<1>5. QED
  BY <1>3, <1>4

\* Deferred branches are rebuilt before the list ends.
LEMMA RebuildDirtyStep ==
    ASSUME HandleInvariant, RebuildDirty
    PROVE  HandleInvariant' /\ StaysInList
<1>1. /\ At("tail") /\ Quiet /\ UNCHANGED document
      /\ \/ MaterializeCurrent(Moved("rhs"))
         \/ batch' = Moved("rhs") /\ UNCHANGED handle /\ ~Dirty(handle)
  BY DEF RebuildDirty, Dirty
<1>2. QED
  BY <1>1, TailMove

\* Right-hand side expressions are rebuilt before the list ends.
LEMMA RebuildRhsStep ==
    ASSUME HandleInvariant, RebuildRhs
    PROVE  HandleInvariant' /\ StaysInList
<1>1. /\ At("rhs") /\ Quiet /\ UNCHANGED document
      /\ \/ MaterializeCurrent(Moved("commit"))
         \/ batch' = Moved("commit") /\ UNCHANGED handle
  BY DEF RebuildRhs
<1>2. ~Dirty(handle)
  BY <1>1, TailFacts DEF StageHolds
<1>3. QED
  BY <1>1, <1>2, TailMove

\* The list as its owner sees it: the version with all its patches, the next
\* generation after the one it started from.
CommittedAsOne ==
  /\ batch # NULL /\ batch' = NULL /\ Sound(handle', document')
  /\ document' \in Nat /\ document' > batch.before
  /\ handle'.generation = batch.original + 1 /\ answer' = NULL

\* The end of sqlparser_apply_patch: derived data goes, the certificate of a
\* multi-table INSERT whose text is current is renewed.
LEMMA CommitBatchStep ==
    ASSUME HandleInvariant, CommitBatch
    PROVE  HandleInvariant' /\ CommittedAsOne
<1> DEFINE edits == IF batch.complete THEN batch.edits ELSE handle.edits
           complete == batch.complete \/ handle.complete
           flags == handle.flags \ {"IN_PLACE"}
           h == [FinalText(handle) EXCEPT !.flags = @ \ {"IN_PLACE"}]
           k == [h EXCEPT !.generation = batch.original + 1]
           i == InvalidateDerived(k)
           c == DiscardAstAdapter(i)
<1>1. /\ At("commit") /\ batch' = NULL /\ UNCHANGED document /\ UNCHANGED <<view, answer>>
      /\ handle' = IF SourceIsCurrent(h) THEN CertifySource(c) ELSE c
  BY DEF CommitBatch, Committed, Quiet
<1>2. /\ Live /\ batch # NULL /\ batch \in Batch /\ batch.left = 0 /\ batch.stage = "commit"
      /\ document \in Nat /\ document \in Version /\ Sound(handle, document)
      /\ handle \in Handle /\ batch.pending = 0
      /\ HandleDuring(handle, batch, document) /\ StageHolds(handle, batch)
  BY <1>1, TailFacts
<1>3. WithinList /\ batch.original \in Nat /\ batch.original + 1 \in Nat
  BY <1>2, ListFacts DEF Batch
<1>4. edits \in SourceEdits \cup {NULL} /\ complete \in BOOLEAN /\ flags = {}
      /\ (complete => Edited(handle.sql, edits) = document)
  <2>1. flags = {}
    BY <1>2 DEF StageHolds, Dirty, Handle, Flags
  <2>2. edits \in SourceEdits \cup {NULL} /\ complete \in BOOLEAN
    BY <1>2 DEF Batch, Handle
  <2>3. complete => Edited(handle.sql, edits) = document
    BY <1>2 DEF HandleDuring, Sound, SourceHolds
  <2>4. QED
    BY <2>1, <2>2, <2>3
<1>5. h = [handle EXCEPT !.edits = edits, !.complete = complete, !.flags = flags]
  <2>1. CASE batch.complete
    BY <1>2, <2>1 DEF FinalText, Handle
  <2>2. CASE ~batch.complete
    BY <1>2, <2>2 DEF FinalText, Handle
  <2>3. QED
    BY <2>1, <2>2
<1> HIDE DEF edits, complete, flags, h
<1>6. h \in Handle
  <2>1. handle \in Handle /\ edits \in SourceEdits \cup {NULL} /\ complete \in BOOLEAN
        /\ flags \in SUBSET Flags
    BY <1>2, <1>4
  <2>2. QED
    BY ONLY <1>5, <2>1 DEF Handle
<1>7. /\ h.edits = edits /\ h.complete = complete /\ h.flags = {} /\ h.sql = handle.sql
      /\ h.generation = handle.generation /\ SameTree(h, handle) /\ SameDerived(h, handle)
      /\ SameDocument(h, handle)
  BY <1>2, <1>4, <1>5 DEF Handle, SameTree, SameDerived, SameDocument
<1>8. k \in Handle
  BY ONLY <1>3, <1>6 DEF Handle
<1>9. /\ SameTree(k, h) /\ SameSource(k, h) /\ SameDocument(k, h) /\ k.flags = h.flags
      /\ k.generation = batch.original + 1
  BY <1>6 DEF Handle, SameTree, SameSource, SameDocument
<1> HIDE DEF k
<1>10. /\ i \in Handle /\ NothingDerived(i) /\ SameTree(i, k) /\ SameSource(i, k)
       /\ SameDocument(i, k) /\ i.generation = k.generation /\ i.flags = k.flags
  BY <1>8, InvalidateFacts
<1> HIDE DEF i
<1>11. /\ SameTree(i, handle) /\ SameDocument(i, handle) /\ i.sql = handle.sql
       /\ i.edits = edits /\ i.complete = complete /\ i.flags = {}
       /\ i.generation = batch.original + 1
  BY <1>7, <1>9, <1>10 DEF SameTree, SameSource, SameDocument
<1>12. Sound(i, document)
  <2>1. SourceHolds(i, document)
    BY <1>3, <1>4, <1>11 DEF SourceHolds
  <2>2. TreeHolds(i, document)
    <3>1. TreeHolds(handle, document) /\ "AST_DIRTY" \notin handle.flags
      BY <1>2, NullAssumption
         DEF HandleDuring, StageHolds, Sound, CompactHolds, Version, Garbage
    <3>2. QED
      BY <1>11, <3>1 DEF TreeHolds, SameTree
  <2>3. DerivedHolds(i, document)
    BY <1>10, NothingDerivedHolds
  <2>4. QED
    BY <1>2, <1>10, <1>11, <2>1, <2>2, <2>3 DEF Sound, SameTree, SameDocument
<1>13. /\ Sound(c, document) /\ c.flags = {} /\ c.generation = batch.original + 1
       /\ c.sql = handle.sql
  BY <1>2, <1>11, <1>12, DiscardFacts DEF Kept, SameSource
<1> HIDE DEF c
<1>14. SourceIsCurrent(h) => handle.sql = document
  BY <1>2, <1>7 DEF SourceIsCurrent, Sound, DerivedHolds, SameDerived
<1>15. Sound(handle', document) /\ handle'.flags = {} /\ handle'.generation = batch.original + 1
  <2>1. CASE SourceIsCurrent(h)
    BY <1>1, <1>2, <1>13, <1>14, <2>1, CertifyFacts
  <2>2. CASE ~SourceIsCurrent(h)
    BY <1>1, <1>13, <2>2
  <2>3. QED
    BY <2>1, <2>2
<1>16. document \in 0..MaxDocument /\ view \in View \cup {NULL} /\ answer = NULL
  BY <1>2, ListFacts DEF TypeOK
<1>17. document > batch.before
  BY <1>2, <1>3 DEF WithinList, Counted, Todo
<1>18. view' # NULL => /\ view'.generation <= handle'.generation
                       /\ view'.generation = handle'.generation => view'.text = document'
  BY <1>1, <1>3, <1>15, <1>16 DEF WithinList, View
<1>19. HandleInvariant'
  BY <1>1, <1>15, <1>16, <1>18, IdleStep
<1>20. QED
  BY <1>1, <1>2, <1>15, <1>16, <1>17, <1>19 DEF CommittedAsOne

-----------------------------------------------------------------------------
(* The invariant is inductive.                                             *)

\* Every step of a list is none to the owner, but for the last.
LEMMA BatchStepKeeps ==
    ASSUME HandleInvariant, ~RepeatRebuilds, BatchStep
    PROVE  HandleInvariant' /\ (StaysInList \/ CommittedAsOne)
BY TakePatchStep, KeepPendingStep, EndPendingStep, OpenSurfaceStep, ChooseDeferStep,
   PlanSurfaceStep, SurfaceUnsupportedStep, ChooseMultiInsertStep, RenameRelationStep,
   RewriteRelationStep, MaterializeEarlierStep, RewriteBranchCellStep, OperateStep,
   EndOfPatchesStep, FlushStep, RebuildDirtyStep, RebuildRhsStep, CommitBatchStep
   DEF BatchStep

\* So is every call between lists, or it is one of the promised ones.
LEMMA ReadingKeeps ==
    ASSUME HandleInvariant, Reading
    PROVE  /\ HandleInvariant'
           /\ \/ ReadAs(document) \/ ReadAs(NULL)
              \/ DeparseFails /\ handle' # NULL /\ handle'.failed
                   /\ handle'.generation = handle.generation + 1
BY DeparseReads, DeparseFailsEmpties, ReadGraphReads, FollowViewReads, ReadBindsReads,
   ReadTreeReads, ReadTreeFailsKeeps
   DEF Reading

\* An empty list.
LEMMA ApplyNothingKeeps ==
    ASSUME HandleInvariant, ApplyNothing
    PROVE  HandleInvariant' /\ ReadAs(NULL)
<1>1. Idle /\ answer' = NULL /\ UNCHANGED <<handle, document, batch, view>>
  BY DEF ApplyNothing
<1>2. Kept(handle', handle)
  BY <1>1 DEF Kept, SameSource, SameDocument
<1>3. QED
  BY <1>1, <1>2, IdleFacts, ReadStep

\* Nothing happens, also after the handle is gone.
LEMMA StutterKeeps ==
    ASSUME HandleInvariant, UNCHANGED vars
    PROVE  HandleInvariant'
BY DEF HandleInvariant, vars, TypeOK, Idle, Live, BetweenLists, WithinList

\* Every step of the handle keeps the invariant.
LEMMA NextKeeps ==
    ASSUME HandleInvariant, ~RepeatRebuilds, [Next]_vars
    PROVE  HandleInvariant'
BY ReadingKeeps, ApplyToWireApplies, ApplyToBranchesApplies, ApplyToStringsApplies,
   ApplyNothingKeeps, BeginApplyBegins, BatchStepKeeps, ApplyFailsEmpties, DestroyEnds,
   StutterKeeps
   DEF Next, Applying, Destroyed

\* The forms of the document and the stage of the list always fit together.
THEOREM HandleInvariance ==
    ASSUME ~RepeatRebuilds
    PROVE  Spec => []HandleInvariant
<1>1. Init => HandleInvariant
  BY InitEstablishes
<1>2. HandleInvariant /\ [Next]_vars => HandleInvariant'
  BY NextKeeps
<1>3. QED
  BY <1>1, <1>2, PTL DEF Spec

-----------------------------------------------------------------------------
(* What follows from it.                                                   *)

\* Every variable keeps its type, whatever the calls and their order.
THEOREM TypesHold ==
    ASSUME ~RepeatRebuilds
    PROVE  Spec => []TypeOK
<1>1. HandleInvariant => TypeOK
  BY DEF HandleInvariant
<1>2. QED
  BY <1>1, HandleInvariance, PTL

\* sqlparser_deparse, sqlparser_query_graph, sqlparser_bind_occurrences and the
\* views show the document with every patch so far, whichever of the forms they
\* read and whatever was derived before.
THEOREM AnswersStayCurrent ==
    ASSUME ~RepeatRebuilds
    PROVE  Spec => []AnswersAreCurrent
<1>1. HandleInvariant => AnswersAreCurrent
  BY DEF HandleInvariant, AnswersAreCurrent
<1>2. QED
  BY <1>1, HandleInvariance, PTL

\* Between calls each copy that a later call may serve, or start a list from,
\* holds the document: the handle's source text, tree, side state, regenerated
\* SQL, graph, bind occurrences and source certificate.
THEOREM CopiesStayCurrent ==
    ASSUME ~RepeatRebuilds
    PROVE  Spec => []CopiesAreCurrent
<1>1. HandleInvariant => CopiesAreCurrent
  <2> SUFFICES ASSUME HandleInvariant, Idle
               PROVE  /\ SourceIsDocument(handle) /\ TreeIsDocument(handle)
                      /\ handle.multi \in {NULL, document}
                      /\ handle.current # NULL => handle.current.text = document
                      /\ GraphIsCurrent(handle) => handle.graph.text = document
                      /\ handle.binds # NULL /\ handle.binds.generation = handle.generation
                           => handle.binds.text = document
                      /\ SourceIsCurrent(handle) => handle.sql = document
    BY DEF CopiesAreCurrent, AuthorityIsDocument, DerivedIsDocument
  <2>1. Sound(handle, document) /\ handle.flags = {}
    BY IdleFacts
  <2>2. SourceIsDocument(handle) /\ handle.multi \in {NULL, document}
    BY <2>1 DEF Sound, SourceHolds, SourceIsDocument
  <2>3. TreeIsDocument(handle)
    BY <2>1 DEF Sound, CompactHolds, TreeHolds, TreeIsDocument
  <2>4. SourceIsCurrent(handle) => handle.sql = document
    BY <2>1 DEF Sound, DerivedHolds, SourceIsCurrent
  <2>5. QED
    BY <2>1, <2>2, <2>3, <2>4 DEF Sound, DerivedHolds
<1>2. QED
  BY <1>1, HandleInvariance, PTL

\* sqlparser_query_graph_is_current accepts no view of an earlier document, also
\* after a list that failed halfway.
THEOREM StaleViewsStayRejected ==
    ASSUME ~RepeatRebuilds
    PROVE  Spec => []StaleViewsAreRejected
<1>1. HandleInvariant => StaleViewsAreRejected
  <2> SUFFICES ASSUME HandleInvariant, view # NULL, handle # NULL, batch = NULL,
                      view.generation = handle.generation
               PROVE  Live /\ view.text = document
    BY DEF StaleViewsAreRejected
  <2>1. handle.generation \in Nat /\ view.generation \in Nat
    BY DEF HandleInvariant, TypeOK, Handle, View
  <2>2. Live
    BY <2>1 DEF HandleInvariant, Live
  <2>3. QED
    BY <2>2 DEF HandleInvariant, Idle, BetweenLists
<1>2. QED
  BY <1>1, HandleInvariance, PTL

\* No patch of a running list is only where the rest of the list will not look:
\* in edits over another text, in a tree or a side state about to be replaced.
THEOREM NothingGetsLost ==
    ASSUME ~RepeatRebuilds
    PROVE  Spec => []NothingIsLost
<1>1. HandleInvariant => NothingIsLost
  <2> SUFFICES ASSUME HandleInvariant
               PROVE  NothingIsLost
    OBVIOUS
  <2>1. PendingEditsFit
    BY PendingFacts, ListFacts DEF PendingEditsFit, WithinList, HandleDuring
  <2>2. TreeStandsForList
    <3> SUFFICES ASSUME Live, batch # NULL, ~batch.complete
                 PROVE  /\ batch.edits = NULL /\ batch.pending = 0
                        /\ IF handle.multi # NULL THEN handle.multi = document
                           ELSE document \in {handle.ast, handle.wire}
                        /\ "AST_DIRTY" \in handle.flags => handle.ast = document
      BY DEF TreeStandsForList
    <3>1. HandleDuring(handle, batch, document) /\ document \in Version
      BY ListFacts DEF WithinList
    <3>2. /\ batch.edits = NULL /\ batch.pending = 0 /\ Sound(handle, document)
          /\ handle.compact = NULL
      BY <3>1 DEF HandleDuring, Shown
    <3>3. TreeHolds(handle, document)
      BY <3>1, <3>2, NullAssumption DEF Sound, CompactHolds, Version, Garbage
    <3>4. QED
      BY <3>2, <3>3 DEF Sound, TreeHolds
  <2>3. DirtyIsRebuilt
    <3>1. CASE batch = NULL
      BY <3>1, IdleFacts DEF DirtyIsRebuilt, Idle
    <3>2. CASE batch # NULL
      BY <3>2, ListFacts DEF DirtyIsRebuilt, WithinList, HandleDuring, Dirty
    <3>3. QED
      BY <3>1, <3>2
  <2>4. QED
    BY <2>1, <2>2, <2>3 DEF NothingIsLost
<1>2. QED
  BY <1>1, HandleInvariance, PTL

\* No flag of a list outlives it, and sqlparser_handle_mark_failed leaves nothing
\* but the failure and the generation.
THEOREM CallsLeaveNothing ==
    ASSUME ~RepeatRebuilds
    PROVE  Spec => []CallsLeaveNoTrace
<1>1. HandleInvariant => CallsLeaveNoTrace
  <2> SUFFICES ASSUME HandleInvariant, handle # NULL
               PROVE  /\ batch = NULL => handle.flags = {}
                      /\ handle.bound => handle.ast # NULL
                      /\ handle.failed =>
                           /\ batch = NULL
                           /\ handle = [Released(handle) EXCEPT !.generation = handle.generation]
    BY DEF CallsLeaveNoTrace
  <2>1. CASE handle.failed
    <3>1. /\ batch = NULL
          /\ handle = [Released(handle) EXCEPT !.generation = handle.generation]
      BY <2>1 DEF HandleInvariant
    <3>2. Released(handle).flags = {} /\ ~Released(handle).bound
      BY DEF Released
    <3>3. handle.flags = {} /\ ~handle.bound
      BY <3>1, <3>2 DEF Released
    <3>4. QED
      BY <3>1, <3>3
  <2>2. CASE ~handle.failed
    <3>1. PICK v : Sound(handle, v)
      BY <2>2, IdleFacts, ListFacts DEF Idle, Live, WithinList, HandleDuring
    <3>2. QED
      BY <2>2, <3>1, IdleFacts DEF Sound, Idle, Live
  <2>3. QED
    BY <2>1, <2>2
<1>2. QED
  BY <1>1, HandleInvariance, PTL

-----------------------------------------------------------------------------
(* To its owner the handle is a PatchedDocument.                           *)

StatusOfHandle ==
  IF handle = NULL THEN "destroyed" ELSE IF handle.failed THEN "failed" ELSE "live"
VersionOfHandle == IF batch # NULL THEN batch.before ELSE document
GenerationOfHandle ==
  IF handle = NULL THEN 0
  ELSE IF batch # NULL THEN batch.original ELSE handle.generation

\* The promise in those terms.
LEMMA PromisedStep ==
    ASSUME \/ /\ StatusOfHandle = "live" /\ answer' \in {VersionOfHandle, NULL}
              /\ UNCHANGED <<StatusOfHandle, VersionOfHandle, GenerationOfHandle>>
           \/ /\ StatusOfHandle = "live" /\ UNCHANGED StatusOfHandle /\ answer' = NULL
              /\ VersionOfHandle' \in Nat /\ VersionOfHandle' > VersionOfHandle
              /\ GenerationOfHandle' = GenerationOfHandle + 1
           \/ /\ StatusOfHandle = "live" /\ StatusOfHandle' = "failed" /\ answer' = NULL
              /\ UNCHANGED VersionOfHandle
              /\ GenerationOfHandle' \in Nat /\ GenerationOfHandle' > GenerationOfHandle
           \/ /\ StatusOfHandle \in {"live", "failed"} /\ StatusOfHandle' = "destroyed"
              /\ UNCHANGED VersionOfHandle /\ GenerationOfHandle' = 0 /\ answer' = NULL
           \/ UNCHANGED <<StatusOfHandle, VersionOfHandle, GenerationOfHandle, answer>>
    PROVE  [Promise!Next]_(Promise!vars)
BY DEF Promise!Next, Promise!Ask, Promise!Say, Promise!Apply, Promise!Fail, Promise!Destroy,
       Promise!vars, StatusOfHandle, VersionOfHandle, GenerationOfHandle

\* A call that only reads asks.
LEMMA ReadingAsks ==
    ASSUME HandleInvariant, NEW shown \in {document, NULL}, ReadAs(shown)
    PROVE  [Promise!Next]_(Promise!vars)
<1>1. /\ handle # NULL /\ ~handle.failed /\ batch = NULL /\ batch' = NULL
      /\ document' = document /\ answer' = shown
      /\ handle'.generation = handle.generation
  BY DEF ReadAs, Idle, Live, Kept
<1>2. handle' # NULL /\ ~handle'.failed
  BY SoundIsLive DEF ReadAs
<1>3. /\ StatusOfHandle = "live" /\ answer' \in {VersionOfHandle, NULL}
      /\ UNCHANGED <<StatusOfHandle, VersionOfHandle, GenerationOfHandle>>
  BY <1>1, <1>2 DEF StatusOfHandle, VersionOfHandle, GenerationOfHandle
<1>4. QED
  BY <1>3, PromisedStep

\* A list that was certified, and the last step of any other, applies.
LEMMA AppliedIsApply ==
    ASSUME HandleInvariant, AppliedAtOnce \/ CommittedAsOne
    PROVE  [Promise!Next]_(Promise!vars)
<1>1. handle # NULL /\ ~handle.failed
  BY DEF AppliedAtOnce, CommittedAsOne, Idle, Live, HandleInvariant
<1>2. handle' # NULL /\ ~handle'.failed
  BY SoundIsLive DEF AppliedAtOnce, CommittedAsOne
<1>3. /\ StatusOfHandle = "live" /\ UNCHANGED StatusOfHandle /\ answer' = NULL
      /\ VersionOfHandle' \in Nat /\ VersionOfHandle' > VersionOfHandle
      /\ GenerationOfHandle' = GenerationOfHandle + 1
  BY <1>1, <1>2
     DEF AppliedAtOnce, CommittedAsOne, Idle, StatusOfHandle, VersionOfHandle, GenerationOfHandle
<1>4. QED
  BY <1>3, PromisedStep

\* Within a list nothing happens to the owner.
LEMMA ListStutters ==
    ASSUME StaysInList
    PROVE  [Promise!Next]_(Promise!vars)
<1>1. UNCHANGED <<StatusOfHandle, VersionOfHandle, GenerationOfHandle, answer>>
  BY DEF StaysInList, StatusOfHandle, VersionOfHandle, GenerationOfHandle
<1>2. QED
  BY <1>1, PromisedStep

\* The start of a list only withdraws the last answer.
LEMMA BeginningSays ==
    ASSUME HandleInvariant, BeginApply
    PROVE  [Promise!Next]_(Promise!vars)
<1>1. Idle
  BY DEF BeginApply
<1>2. /\ StatusOfHandle = "live" /\ answer' = NULL
      /\ UNCHANGED <<StatusOfHandle, VersionOfHandle, GenerationOfHandle>>
  BY <1>1, BeginApplyBegins
     DEF Idle, Live, StatusOfHandle, VersionOfHandle, GenerationOfHandle
<1>3. QED
  BY <1>2, PromisedStep

\* Wherever a call fails, the document is as it was before the call.
LEMMA FailingFails ==
    ASSUME HandleInvariant, DeparseFails \/ ApplyFails
    PROVE  [Promise!Next]_(Promise!vars)
<1>1. CASE DeparseFails
  <2>1. /\ Idle /\ answer' = NULL /\ UNCHANGED <<document, batch>>
        /\ handle' # NULL /\ handle'.failed /\ handle'.generation = handle.generation + 1
        /\ handle.generation \in Nat
    BY <1>1, DeparseFailsEmpties, IdleFacts DEF DeparseFails
  <2>2. /\ StatusOfHandle = "live" /\ StatusOfHandle' = "failed" /\ answer' = NULL
        /\ UNCHANGED VersionOfHandle
        /\ GenerationOfHandle' \in Nat /\ GenerationOfHandle' > GenerationOfHandle
    BY <2>1 DEF Idle, Live, StatusOfHandle, VersionOfHandle, GenerationOfHandle
  <2>3. QED
    BY <2>2, PromisedStep
<1>2. CASE ApplyFails
  <2>1. /\ Live /\ answer' = NULL /\ batch' = NULL
        /\ document' = IF batch = NULL THEN document ELSE batch.before
        /\ handle' # NULL /\ handle'.failed /\ handle'.generation \in Nat
        /\ handle'.generation > handle.generation
    BY <1>2, ApplyFailsEmpties DEF ApplyFails
  <2>2. GenerationOfHandle \in Nat /\ GenerationOfHandle <= handle.generation
        /\ handle.generation \in Nat
    BY <2>1, IdleFacts, ListFacts
       DEF Idle, Live, GenerationOfHandle, WithinList, Counted, Batch
  <2>3. /\ StatusOfHandle = "live" /\ StatusOfHandle' = "failed" /\ UNCHANGED VersionOfHandle
        /\ GenerationOfHandle' = handle'.generation
    BY <2>1 DEF Live, StatusOfHandle, VersionOfHandle, GenerationOfHandle
  <2>4. GenerationOfHandle' \in Nat /\ GenerationOfHandle' > GenerationOfHandle
    BY <2>1, <2>2, <2>3
  <2>5. QED
    BY <2>1, <2>3, <2>4, PromisedStep
<1>3. QED
  BY <1>1, <1>2

\* sqlparser_destroy is promised of live and failed handles.
LEMMA DestroyDestroys ==
    ASSUME Destroy
    PROVE  [Promise!Next]_(Promise!vars)
<1>1. /\ StatusOfHandle \in {"live", "failed"} /\ StatusOfHandle' = "destroyed"
      /\ UNCHANGED VersionOfHandle /\ GenerationOfHandle' = 0 /\ answer' = NULL
  BY DEF Destroy, StatusOfHandle, VersionOfHandle, GenerationOfHandle
<1>2. QED
  BY <1>1, PromisedStep

\* What changes nothing changes nothing for the owner.
LEMMA StutterStutters ==
    ASSUME UNCHANGED vars
    PROVE  [Promise!Next]_(Promise!vars)
<1>1. UNCHANGED <<StatusOfHandle, VersionOfHandle, GenerationOfHandle, answer>>
  BY DEF vars, StatusOfHandle, VersionOfHandle, GenerationOfHandle
<1>2. QED
  BY <1>1, PromisedStep

\* Every step is a promised one, or none.
LEMMA StepIsPromised ==
    ASSUME HandleInvariant, ~RepeatRebuilds, [Next]_vars
    PROVE  [Promise!Next]_(Promise!vars)
<1>1. CASE Reading
  BY <1>1, ReadingKeeps, ReadingAsks, FailingFails
<1>2. CASE Applying
  BY <1>2, ApplyToWireApplies, ApplyToBranchesApplies, ApplyToStringsApplies,
     ApplyNothingKeeps, AppliedIsApply, ReadingAsks, BeginningSays DEF Applying
<1>3. CASE BatchStep
  BY <1>3, BatchStepKeeps, ListStutters, AppliedIsApply
<1>4. CASE ApplyFails
  BY <1>4, FailingFails
<1>5. CASE Destroy
  BY <1>5, DestroyDestroys
<1>6. CASE Destroyed \/ UNCHANGED vars
  BY <1>6, StutterStutters DEF Destroyed
<1>7. QED
  BY <1>1, <1>2, <1>3, <1>4, <1>5, <1>6 DEF Next

\* sqlparser_apply_patch and the reading calls implement PatchedDocument: every
\* answer is the whole document, every list takes effect as one with one new
\* generation, and a list that fails halfway ends in failure with none of it.
THEOREM PromiseIsKept ==
    ASSUME ~RepeatRebuilds
    PROVE  Spec => ImplementsPromise
<1>1. Init => Promise!Init
  <2> SUFFICES ASSUME Init PROVE Promise!Init
    OBVIOUS
  <2>1. PICK r \in {"LEGACY_WIRE", "OWNED_AST", "COMPACT_INSERT"}, multi, control \in BOOLEAN :
          handle = Parsed(0, r, multi, control)
    BY DEF Init
  <2>2. handle # NULL
    BY InitEstablishes DEF Idle, Live
  <2>3. ~handle.failed /\ handle.generation = 0
    BY <2>1 DEF Parsed
  <2>4. QED
    BY <2>2, <2>3 DEF Init, Promise!Init
<1>2. HandleInvariant /\ [Next]_vars => [Promise!Next]_(Promise!vars)
  BY StepIsPromised
<1>3. QED
  BY <1>1, <1>2, HandleInvariance, PTL DEF Spec, ImplementsPromise, Promise!Spec

=============================================================================
