----------------------------- MODULE SessionLog -----------------------------
(***************************************************************************)
(* What SessionStore (py_coding_agent/session.py) reads in a session file, *)
(* and what compact_records (compaction.py) makes of it.  The file is the  *)
(* sequence of its lines.  A record has an id and a size in estimated      *)
(* tokens, a summary is known by the records it was made from.  The lists  *)
(* of records that are read are sets of line numbers here.                 *)
(***************************************************************************)
EXTENDS Integers, Sequences, FiniteSetsExt

CONSTANTS
  Enabled,   \* compaction.enabled
  Window,    \* context_window_tokens
  Reserve,   \* compaction.reserve_tokens
  Keep       \* compaction.keep_recent_tokens

ASSUME SettingsAssumption ==
  /\ Enabled \in BOOLEAN
  /\ Window \in Nat \ {0} /\ Reserve \in Nat \ {0} /\ Keep \in Nat \ {0}

Interaction(id, b, n) ==
  [type |-> "interaction", id |-> id, branch |-> b, size |-> n]
Compaction(b, first, ids) ==
  [type |-> "compaction", branch |-> b, kept |-> first, covers |-> ids]

\* A line that does not parse; readers skip it.
Garbage == [type |-> "garbage"]

\* As Interactions, those of every branch.
InteractionsOfAnyBranch(file, b) ==
  {i \in DOMAIN file : file[i].type = "interaction"}

Interactions(file, b) ==
  {i \in DOMAIN file : file[i].type = "interaction" /\ file[i].branch = b}

\* As Compactions, those of every branch.
CompactionsOfAnyBranch(file, b) ==
  {i \in DOMAIN file : file[i].type = "compaction"}

Compactions(file, b) ==
  {i \in DOMAIN file : file[i].type = "compaction" /\ file[i].branch = b}

Ids(file, records) == {file[i].id : i \in records}
LineOf(file, records, id) == CHOOSE i \in records : file[i].id = id
From(records, n) == {i \in records : i >= n}

\* The latest compaction is the boundary; one whose record is unknown is none.
Load(file, b) ==
  LET records == Interactions(file, b)
      boundaries == Compactions(file, b)
      kept == file[Max(boundaries)].kept
  IN IF boundaries # {} /\ kept \in Ids(file, records)
     THEN From(records, LineOf(file, records, kept))
     ELSE records

\* The tokens of some records, added up line by line.
Tokens(file, records) ==
  LET upTo[n \in 0..Len(file)] ==
        IF n = 0 THEN 0
        ELSE upTo[n - 1] + (IF n \in records THEN file[n].size ELSE 0)
  IN upTo[Len(file)]

ShouldCompact(tokens) ==
  Enabled /\ Window > Reserve /\ tokens > Window - Reserve

Compactable(file, records) ==
  Cardinality(records) >= 2 /\ ShouldCompact(Tokens(file, records))

\* The oldest record is never kept.
Keepable(records) == records \ {Min(records)}

\* The records from which on there are keep_recent_tokens.
Enough(file, records) ==
  {i \in Keepable(records) : Tokens(file, From(records, i)) >= Keep}

\* As Cut, the oldest record that has enough behind it.
CutTooEarly(file, records) ==
  IF Enough(file, records) = {} THEN Min(Keepable(records))
  ELSE Min(Enough(file, records))

\* As Cut, one record further.
CutTooLate(file, records) ==
  LET few == Keepable(records) \ Enough(file, records)
  IN IF Enough(file, records) = {} THEN Min(Keepable(records))
     ELSE IF few = {} THEN Max(records) ELSE Min(few)

\* The walk from the newest record stops where keep_recent_tokens is reached.
Cut(file, records) ==
  IF Enough(file, records) = {} THEN Min(Keepable(records))
  ELSE Max(Enough(file, records))

\* As Before, the last of them missing.
BeforeButLast(records, n) ==
  {i \in records : \E j \in records : i < j /\ j < n}
Before(records, n) == {i \in records : i < n}

=============================================================================
