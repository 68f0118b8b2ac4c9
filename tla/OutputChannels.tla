--------------------------- MODULE OutputChannels ---------------------------
(***************************************************************************)
(* What a caller is promised about the results of data-modifying           *)
(* statements (OUTPUT of SQL Server, RETURNING of PostgreSQL, RETURNING    *)
(* ... INTO of Oracle): the SQL written for a handle has the channels of   *)
(* the SQL that was parsed, and a patch edits the one channel it names and *)
(* nothing else.  A channel returns its targets to the client, or into a   *)
(* sink whose columns (Oracle: whose binds) receive them.                  *)
(***************************************************************************)
EXTENDS Integers, Sequences, SequencesExt

CONSTANTS
    Documents,  \* the SQL that is parsed
    Fragments,  \* the targets of patches
    Receivers,  \* the columns and binds of patches
    Sinks,      \* the sinks of patches
    None        \* no sink, no handle

VARIABLE written  \* for each statement, for each DML in it: its channels

\* A statement's own channels, then those of the DMLs nested in it.
Text(doc) ==
    [s \in DOMAIN doc.statements |->
        LET top == doc.statements[s]
        IN <<top.clause>> \o [j \in DOMAIN top.inner |-> top.inner[j].clause]]

Init == written = None

Parse == /\ written = None
         /\ \E doc \in Documents : written' = Text(doc)

\* sqlparser_destroy, and any patch that is refused.
Lose == written # None /\ written' = None

\* What one patch may make of a channel.
Replaced(channel) ==
    {[channel EXCEPT !.targets[i] = t] : i \in DOMAIN channel.targets, t \in Fragments}

Inserted(channel) ==
    {[channel EXCEPT !.targets = InsertAt(@, i, t)] :
        i \in 1..Len(channel.targets) + 1, t \in Fragments}

\* A target and its receiver, at the same place of lists that match.
InsertedPair(channel) ==
    IF Len(channel.targets) # Len(channel.columns) THEN {}
    ELSE {[channel EXCEPT !.targets = InsertAt(@, i, t), !.columns = InsertAt(@, i, r)] :
             i \in 1..Len(channel.targets) + 1, t \in Fragments, r \in Receivers}

Deleted(channel) ==
    IF Len(channel.targets) = 1 THEN {}
    ELSE {[channel EXCEPT !.targets = RemoveAt(@, i)] : i \in DOMAIN channel.targets}

SinkChanged(channel) ==
    LET columns == channel.columns
        changed == {InsertAt(columns, i, r) : i \in 1..Len(columns) + 1, r \in Receivers}
                     \cup {RemoveAt(columns, i) : i \in DOMAIN columns}
                     \cup {ReplaceAt(columns, i, r) : i \in DOMAIN columns, r \in Receivers}
    IN IF channel.sink = None THEN {}
       ELSE {[channel EXCEPT !.sink = sink] : sink \in Sinks}
              \cup {[channel EXCEPT !.columns = new] : new \in changed}

Edited(channel) ==
    Replaced(channel) \cup Inserted(channel) \cup InsertedPair(channel)
        \cup Deleted(channel) \cup SinkChanged(channel)

\* A channel to the client may go with its last target.
Emptied(channels, c) ==
    IF Len(channels[c].targets) = 1 /\ channels[c].sink = None
    THEN {RemoveAt(channels, c)} ELSE {}

Edit == /\ written # None
        /\ \E now \in {written} : \E s \in DOMAIN now : \E d \in DOMAIN now[s] :
               \E c \in DOMAIN now[s][d] :
                   written' \in {[now EXCEPT ![s][d][c] = new] : new \in Edited(now[s][d][c])}
                                  \cup {[now EXCEPT ![s][d] = new] : new \in Emptied(now[s][d], c)}

Next == Parse \/ Edit \/ Lose

Spec == Init /\ [][Next]_written
=============================================================================
