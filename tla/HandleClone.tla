---------------------------- MODULE HandleClone ----------------------------
(***************************************************************************)
(* Copying a handle, block by block (sqlparser_core.c).  The dialects of   *)
(* multi-table INSERT try a change on a copy and then give the handle the  *)
(* contents of a parsed replacement.  Every allocation of the copy may     *)
(* fail; the partial copy is then destroyed by the routine that destroys   *)
(* whole handles, which believes the counts it finds.  Records are copied  *)
(* whole before their strings are, so for a moment the copy holds pointers *)
(* of the handle it was made from.                                         *)
(***************************************************************************)
EXTENDS Integers, Sequences

CONSTANTS
  Shapes,      \* handles that may be copied, see IsShape
  Elements,    \* bound: mutation records, and spelling groups, of a handle
  MaxParts,    \* components of a spelling group
  Blocks       \* addresses of the heap

NoBlock == 0

\* Single blocks of a handle, besides the strings of records and groups.
\* parser_sql may be the same block as sql.
Optional == {"state", "edits", "control", "origins"}
Parts == Optional \union {"struct", "sql", "parser", "tree", "records", "groups"}
Handles == {"owner", "copy", "fresh"}

\* The places where a handle keeps a block: a field, a string of a mutation
\* record, a component of a spelling group.
Part(p) == <<p, 0, 0>>
Original(i) == <<"original", i, 0>>
Spelling(i) == <<"spelling", i, 0>>
Component(g, c) == <<"component", g, c>>
Places ==
  {Part(p) : p \in Parts}
    \union {Original(i) : i \in 1..Elements} \union {Spelling(i) : i \in 1..Elements}
    \union {Component(g, c) : g \in 1..Elements, c \in 1..MaxParts}

IsShape(s) ==
  /\ s.has \subseteq Optional                  \* what else the handle holds
  /\ s.compact \in BOOLEAN                     \* a compact INSERT instead of a tree
  /\ s.alias \in BOOLEAN                       \* parser_sql is sql
  /\ s.records \in 0..Elements                 \* mutation records
  /\ s.spelled \subseteq 1..Elements           \* those that have a spelling
  /\ s.groups \in 0..Elements                  \* spelling groups
  /\ s.parts \in [1..Elements -> 0..MaxParts] \* how many components they have

Shaped == \A s \in Shapes : IsShape(s)
Sized == Elements \in Nat /\ MaxParts \in Nat \ {0} /\ Blocks \in Nat \ {0}
ASSUME HandlesAssumption == Shaped /\ Sized

VARIABLES
  heap,    \* the blocks in use
  handle,  \* the handles' fields
  step,    \* what the copy allocates next, "idle" outside a copy
  wild     \* was a block freed that was not in use?

handleVars == <<heap, handle, step, wild>>

-----------------------------------------------------------------------------
NoHandle ==
  [at |-> [pl \in Places |-> NoBlock], compact |-> FALSE,
   records |-> 0, recordCount |-> 0,     \* the length of the array, and what is believed of it
   groups |-> 0, groupCount |-> 0,
   partCount |-> [g \in 1..Elements |-> 0]]
Exists(h) == handle[h].at[Part("struct")] # NoBlock

\* A handle with block b, or none, at some places.
Put(x, places, b) ==
  [x EXCEPT !.at = [pl \in Places |-> IF pl \in places THEN b ELSE x.at[pl]]]

NewBlock == CHOOSE b \in 1..Blocks \ heap : \A c \in 1..Blocks \ heap : b <= c

\* The places whose blocks release_contents frees: it looks at the counts, and
\* frees parser_sql only if it is not sql.
Reached(x, pl) ==
  /\ pl[1] # "struct"
  /\ pl[1] = "parser" => x.at[pl] # x.at[Part("sql")]
  /\ pl[1] \in {"original", "spelling"} => pl[2] <= x.recordCount
  /\ pl[1] = "component" => pl[2] <= x.groupCount /\ pl[3] <= x.partCount[pl[2]]
Released(x) == {pl \in Places : x.at[pl] # NoBlock /\ Reached(x, pl)}

\* destroy also frees the handle itself.
Destroyed(x) == Released(x) \union {Part("struct")}

BlocksAt(x, places) == {x.at[pl] : pl \in places}

\* Freeing what is at some places of a handle, one block after the other.
FreeAll(x, places) ==
  /\ heap' = heap \ BlocksAt(x, places)
  /\ wild' = (wild \/ ~(BlocksAt(x, places) \subseteq heap)
                   \/ \E pl, q \in places : pl # q /\ x.at[pl] = x.at[q])

-----------------------------------------------------------------------------
(***************************************************************************)
(* A parsed handle of a given shape, its blocks from address n + 1 on.     *)
(***************************************************************************)
Fills(s, pl) ==
  /\ pl[1] \in Optional => pl[1] \in s.has
  /\ pl[1] = "parser" => ~s.alias
  /\ pl[1] = "records" => s.records # 0
  /\ pl[1] = "groups" => s.groups # 0
  /\ pl[1] \in {"original", "spelling"} => pl[2] <= s.records
  /\ pl[1] = "spelling" => pl[2] \in s.spelled
  /\ pl[1] = "component" => pl[2] <= s.groups /\ pl[3] <= s.parts[pl[2]]

PartNumber ==
  [struct |-> 1, sql |-> 2, parser |-> 3, tree |-> 4, state |-> 5, edits |-> 6,
   control |-> 7, origins |-> 8, records |-> 9, groups |-> 10]
Number(pl) ==
  CASE pl[1] \in Parts -> PartNumber[pl[1]]
    [] pl[1] = "original" -> 10 + pl[2]
    [] pl[1] = "spelling" -> 10 + Elements + pl[2]
    [] pl[1] = "component" -> 10 + 2 * Elements + (pl[2] - 1) * MaxParts + pl[3]

Parsed(s, n) ==
  [at |-> [pl \in Places |->
             IF Fills(s, pl) THEN n + Number(pl)
             ELSE IF pl = Part("parser") THEN n + Number(Part("sql")) ELSE NoBlock],
   compact |-> s.compact,
   records |-> s.records, recordCount |-> s.records,
   groups |-> s.groups, groupCount |-> s.groups,
   partCount |-> [g \in 1..Elements |-> IF g <= s.groups THEN s.parts[g] ELSE 0]]

HandlesInit ==
  \E s \in Shapes :
    /\ BlocksAt(Parsed(s, 0), Destroyed(Parsed(s, 0))) \subseteq 1..Blocks
    /\ handle = [h \in Handles |-> IF h = "owner" THEN Parsed(s, 0) ELSE NoHandle]
    /\ heap = BlocksAt(Parsed(s, 0), Destroyed(Parsed(s, 0)))
    /\ step = "idle"
    /\ wild = FALSE

\* Another handle, parsed from the text the copy deparsed to.
ParseReplacement(s) ==
  /\ step = "idle" /\ Exists("owner") /\ ~Exists("fresh")
  /\ \E top \in {0} \union heap :
       LET x == Parsed(s, top)
       IN /\ \A b \in heap : b <= top
          /\ BlocksAt(x, Destroyed(x)) \subseteq 1..Blocks
          /\ handle' = [handle EXCEPT !["fresh"] = x]
          /\ heap' = heap \union BlocksAt(x, Destroyed(x))
  /\ UNCHANGED <<step, wild>>

-----------------------------------------------------------------------------
(***************************************************************************)
(* The copy.  Each step takes one block or fails; a step whose original    *)
(* holds nothing is passed over.                                           *)
(***************************************************************************)
Src == handle["owner"]
Dst == handle["copy"]

Order == <<"sql", "parser", "state", "tree", "edits", "records", "original",
           "groups", "component", "control", "origins">>
IndexOfStep(p) == CHOOSE i \in DOMAIN Order : Order[i] = p

\* Does the step after the given progress have anything to copy?
Wanted(p, dst) ==
  CASE p = "original" -> dst.recordCount < Src.records
    [] p = "component" -> dst.groupCount < Src.groups
    [] p = "parser" -> dst.at[Part("parser")] = NoBlock
    [] OTHER -> Src.at[Part(p)] # NoBlock

\* Groups without parts need no block: they are counted as they are met.
SkipHoles(dst) ==
  LET full == {g \in (dst.groupCount + 1)..Src.groups : Src.partCount[g] > 0}
  IN [dst EXCEPT !.groupCount = IF dst.groups = 0 THEN 0
        ELSE IF full = {} THEN Src.groups
        ELSE (CHOOSE g \in full : \A f \in full : g <= f) - 1]

NextStep(i, dst) ==
  LET left == {j \in i..Len(Order) : Wanted(Order[j], dst)}
  IN IF left = {} THEN "idle" ELSE Order[CHOOSE j \in left : \A l \in left : j <= l]

\* A compact INSERT is first parsed into a tree of the original.
Promote ==
  /\ step = "idle" /\ Exists("owner") /\ Src.compact
  /\ heap # 1..Blocks
  /\ handle' = [handle EXCEPT !["owner"] =
                 [Put(@, {Part("tree")}, NewBlock) EXCEPT !.compact = FALSE]]
  /\ heap' = (heap \ {Src.at[Part("tree")]}) \union {NewBlock}
  /\ UNCHANGED <<step, wild>>

\* A handle without text is no handle to copy.
BeginClone ==
  /\ step = "idle" /\ Exists("owner") /\ ~Exists("copy") /\ ~Src.compact
  /\ Src.at[Part("sql")] # NoBlock
  /\ heap # 1..Blocks
  /\ handle' = [handle EXCEPT !["copy"] = Put(@, {Part("struct")}, NewBlock)]
  /\ heap' = heap \union {NewBlock}
  /\ step' = "sql"
  /\ UNCHANGED wild

Abandon(dst) ==
  /\ FreeAll(dst, Destroyed(dst))
  /\ handle' = [handle EXCEPT !["copy"] = NoHandle]
  /\ step' = "idle"

Proceed(dst, i) ==
  LET met == IF i = IndexOfStep("component") THEN SkipHoles(dst) ELSE dst
  IN /\ handle' = [handle EXCEPT !["copy"] = met]
     /\ heap' = heap \union {NewBlock}
     /\ step' = NextStep(i, met)
     /\ UNCHANGED wild

\* The blocks a handle has one of.  The copy's parser_sql is its sql when the
\* texts are the same, even if the original has each of them.
ClonePart ==
  /\ step \in Parts
  /\ \/ /\ heap # 1..Blocks
        /\ \E same \in BOOLEAN :
             /\ same => step = "sql"
             /\ step = "sql" /\ Src.at[Part("parser")] = Src.at[Part("sql")] => same
             /\ Proceed([Put(Dst, {Part(step), Part(IF same THEN "parser" ELSE step)}, NewBlock) EXCEPT
                           !.records = IF step = "records" THEN Src.records ELSE @,
                           !.groups = IF step = "groups" THEN Src.groups ELSE @],
                        IndexOfStep(step) + 1)
     \/ Abandon(Dst)

\* A record is copied with the pointers of the original's.
Record(dst, r, original, spelling) ==
  Put(Put(dst, {Original(r)}, original), {Spelling(r)}, spelling)

\* Mutant: a record that gets no string is counted before it is given up.
CloneOriginalCounted ==
  LET r == Dst.recordCount + 1
      spelling == Src.at[Spelling(r)]
      mine == Record(Dst, r, NewBlock, spelling)
  IN /\ step = "original"
     /\ \/ /\ heap # 1..Blocks /\ spelling = NoBlock
           /\ Proceed([mine EXCEPT !.recordCount = r], IndexOfStep("original"))
        \/ /\ heap # 1..Blocks /\ spelling # NoBlock
           /\ handle' = [handle EXCEPT !["copy"] = mine]
           /\ heap' = heap \union {NewBlock}
           /\ step' = "spelling"
           /\ UNCHANGED wild
        \/ Abandon([Record(Dst, r, NoBlock, spelling) EXCEPT !.recordCount = r])

\* A record is copied with the original's pointers, then gets strings of its
\* own.  Until it is whole it is not counted.
CloneOriginal ==
  LET r == Dst.recordCount + 1
      spelling == Src.at[Spelling(r)]
      mine == Record(Dst, r, NewBlock, spelling)
  IN /\ step = "original"
     /\ \/ /\ heap # 1..Blocks /\ spelling = NoBlock
           /\ Proceed([mine EXCEPT !.recordCount = r], IndexOfStep("original"))
        \/ /\ heap # 1..Blocks /\ spelling # NoBlock
           /\ handle' = [handle EXCEPT !["copy"] = mine]
           /\ heap' = heap \union {NewBlock}
           /\ step' = "spelling"
           /\ UNCHANGED wild
        \/ Abandon(Record(Dst, r, NoBlock, spelling))

CloneSpelling ==
  LET r == Dst.recordCount + 1
      given(b) == [Put(Dst, {Spelling(r)}, b) EXCEPT !.recordCount = r]
  IN /\ step = "spelling"
     /\ \/ heap # 1..Blocks /\ Proceed(given(NewBlock), IndexOfStep("original"))
        \/ Abandon(given(NoBlock))

\* Mutant: a failure inside a group leaves the group uncounted.
ClonePartUncounted ==
  LET g == Dst.groupCount + 1
      c == Dst.partCount[g] + 1
  IN /\ step = "component"
     /\ \/ /\ heap # 1..Blocks
           /\ Proceed([Put(Dst, {Component(g, c)}, NewBlock) EXCEPT
                         !.partCount = [@ EXCEPT ![g] = c],
                         !.groupCount = IF c = Src.partCount[g] THEN g ELSE @],
                      IndexOfStep("component"))
        \/ Abandon(Dst)

\* A group is counted as soon as its parts are; a failure inside counts it
\* with the parts it has.
ClonePartOfGroup ==
  LET g == Dst.groupCount + 1
      c == Dst.partCount[g] + 1
  IN /\ step = "component"
     /\ \/ /\ heap # 1..Blocks
           /\ Proceed([Put(Dst, {Component(g, c)}, NewBlock) EXCEPT
                         !.partCount = [@ EXCEPT ![g] = c],
                         !.groupCount = IF c = Src.partCount[g] THEN g ELSE @],
                      IndexOfStep("component"))
        \/ Abandon([Dst EXCEPT !.groupCount = g])

-----------------------------------------------------------------------------
Destroy(h) ==
  /\ step = "idle" /\ Exists(h)
  /\ FreeAll(handle[h], Destroyed(handle[h]))
  /\ handle' = [handle EXCEPT ![h] = NoHandle]
  /\ UNCHANGED step

\* What is left of a handle that gave its contents away.
Shell(x) == Put(NoHandle, {Part("struct")}, x.at[Part("struct")])
Filled(x, from) == Put(from, {Part("struct")}, x.at[Part("struct")])

\* Mutant: the shell that is left keeps its counts.
ReplaceContentsOnly(h) ==
  /\ step = "idle" /\ h # "owner" /\ Exists("owner") /\ Exists(h)
  /\ handle[h].at[Part("sql")] # NoBlock
  /\ FreeAll(Src, Released(Src))
  /\ handle' = [handle EXCEPT
       !["owner"] = Filled(Src, handle[h]),
       ![h] = [Shell(@) EXCEPT !.recordCount = handle[h].recordCount]]
  /\ UNCHANGED step

\* The owner's contents give way to another handle's; what is left of that
\* one is an empty shell.
ReplaceContents(h) ==
  /\ step = "idle" /\ h # "owner" /\ Exists("owner") /\ Exists(h)
  /\ handle[h].at[Part("sql")] # NoBlock
  /\ FreeAll(Src, Released(Src))
  /\ handle' = [handle EXCEPT !["owner"] = Filled(Src, handle[h]), ![h] = Shell(@)]
  /\ UNCHANGED step

HandlesNext ==
  \/ Promote
  \/ BeginClone
  \/ ClonePart
  \/ CloneOriginal
  \/ CloneSpelling
  \/ ClonePartOfGroup
  \/ \E s \in Shapes : ParseReplacement(s)
  \/ \E h \in Handles : Destroy(h) \/ ReplaceContents(h)

HandlesSpec == HandlesInit /\ [][HandlesNext]_handleVars

-----------------------------------------------------------------------------
\* The fields have their shape; outside a copy the counts cover the arrays
\* (sqlparser_handle_clone, sqlparser_handle_replace_contents).
Handle ==
  [at : [Places -> {NoBlock} \union 1..Blocks], compact : BOOLEAN,
   records : 0..Elements, recordCount : 0..Elements,
   groups : 0..Elements, groupCount : 0..Elements,
   partCount : [1..Elements -> 0..MaxParts]]

HandlesTypeOK ==
  /\ heap \subseteq 1..Blocks
  /\ step \in {Order[i] : i \in DOMAIN Order} \union {"spelling", "idle"}
  /\ wild \in BOOLEAN
  /\ handle \in [Handles -> Handle]
  /\ \A h \in Handles :
       /\ handle[h].recordCount <= handle[h].records
       /\ handle[h].groupCount <= handle[h].groups
       /\ step = "idle" =>
            /\ handle[h].recordCount = handle[h].records
            /\ handle[h].groupCount = handle[h].groups

\* No order of copies, failures, replacements and destructions frees a block
\* twice or frees one that belongs to somebody else.  Outside a copy every block
\* in use belongs to exactly one place of one handle, which frees it exactly
\* once: nothing is shared after a copy and nothing leaks from one that failed
\* half-way (sqlparser_handle_clone).
Live == {h \in Handles : Exists(h)}
EveryBlockHasOneOwner ==
  /\ ~wild
  /\ step = "idle" =>
       /\ heap = UNION {BlocksAt(handle[h], Destroyed(handle[h])) : h \in Live}
       /\ \A h, k \in Live : \A pl \in Destroyed(handle[h]), q \in Destroyed(handle[k]) :
            handle[h].at[pl] = handle[k].at[q] => h = k /\ pl = q

\* A copy takes nothing from the handle it is made of: no step of it, failed
\* or not, frees a block of the original or changes one of its fields
\* (sqlparser_handle_clone).
OriginalIsUntouched ==
  [][step # "idle" => /\ handle'["owner"] = handle["owner"]
                      /\ BlocksAt(Src, Destroyed(Src)) \subseteq heap']_handleVars
=============================================================================
