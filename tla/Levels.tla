------------------------------- MODULE Levels -------------------------------
(***************************************************************************)
(* The levels of tables of a leveldb database.  Memtables become tables of *)
(* one of the first levels; compactions merge tables of a level with those *)
(* of the next, dropping entries nobody can see any more, while memtables  *)
(* still come in.  A lookup asks the memtable and then level by level, and *)
(* takes the first entry it finds.  A table is the set of its entries;     *)
(* sizes, which decide how far tables go down and how they are cut, are    *)
(* left to choice.                                                         *)
(***************************************************************************)
EXTENDS Integers, FiniteSetsExt

CONSTANTS
  None,
  NumKeys,            \* bound: user keys
  Deletions,          \* whether writes are deletions
  NumLevels,          \* kNumLevels
  MaxMemCompactLevel, \* kMaxMemCompactLevel
  MaxOutputs,         \* bound: tables a compaction makes
  Manual,             \* whether CompactRange is called
  MaxWrites,          \* bound: writes
  MaxSnapshots        \* bound: snapshots held at a time

Keys      == 1 .. NumKeys
AllLevels == 0 .. NumLevels - 1

LevelsAssumption ==
  NumLevels \in Nat \ {0, 1} /\ MaxMemCompactLevel \in AllLevels /\ Deletions \subseteq BOOLEAN

VARIABLES
  written,      \* history: every entry ever written
  lastSequence,
  snapshots,    \* the sequence numbers of the snapshots held
  mem,          \* the entries in the memtable
  levels,       \* the tables of each level
  compaction    \* the compaction under way, or None

vars == <<written, lastSequence, snapshots, mem, levels, compaction>>

(* The order of internal keys: by user key, and the newest first.          *)
Before(e, f) == e.key < f.key \/ (e.key = f.key /\ e.seq > f.seq)

Smallest(t) == CHOOSE e \in t : \A f \in t : f = e \/ Before(e, f)
Largest(t)  == CHOOSE e \in t : \A f \in t : f = e \/ Before(f, e)

(* The user keys from the first to the last of some tables.                *)
KeyRange(ts) == LET keys == {e.key : e \in UNION ts} IN Min(keys) .. Max(keys)

Overlapping(ts, range) == {t \in ts : KeyRange({t}) \cap range # {}}

(* The newest of some entries of a key that is not newer than a snapshot.  *)
Newest(entries, key, snapshot) ==
  LET found == {e \in entries : e.key = key /\ e.seq <= snapshot}
  IN  IF found = {} THEN None ELSE CHOOSE e \in found : \A f \in found : f.seq <= e.seq

(* The value an entry stands for: its number, or None for a deletion.      *)
Value(e) == IF e = None \/ e.deletion THEN None ELSE e.seq
-----------------------------------------------------------------------------
(* Version::Get                                                            *)

(* What one level finds: in level 0 the newest table that has something,   *)
(* elsewhere the first table that does not end before the key.             *)
FindInLevel(level, key, snapshot) ==
  IF level = 0
  THEN Newest(UNION levels[0], key, snapshot)
  ELSE LET notBefore == {t \in levels[level] :
                           LET last == Largest(t)
                           IN  last.key > key \/ (last.key = key /\ last.seq <= snapshot)}
       IN  IF notBefore = {} THEN None
           ELSE Newest(CHOOSE t \in notBefore :
                         \A u \in notBefore : u = t \/ Before(Largest(t), Largest(u)),
                       key, snapshot)

(* The first level that finds something answers.                           *)
Get(key, snapshot) ==
  LET inMem   == Newest(mem, key, snapshot)
      finding == {l \in AllLevels : FindInLevel(l, key, snapshot) # None}
  IN  IF inMem # None THEN Value(inMem)
      ELSE IF finding = {} THEN None
      ELSE Value(FindInLevel(Min(finding), key, snapshot))
-----------------------------------------------------------------------------
Init ==
  /\ written = {} /\ lastSequence = 0 /\ snapshots = {} /\ mem = {}
  /\ levels = [l \in AllLevels |-> {}]
  /\ compaction = None

Write(key, deletion) ==
  /\ lastSequence < MaxWrites
  /\ lastSequence' = lastSequence + 1
  /\ LET e == [key |-> key, seq |-> lastSequence + 1, deletion |-> deletion]
     IN  mem' = mem \cup {e} /\ written' = written \cup {e}
  /\ UNCHANGED <<snapshots, levels, compaction>>

GetSnapshot ==
  /\ Cardinality(snapshots) < MaxSnapshots
  /\ snapshots' = snapshots \cup {lastSequence}
  /\ UNCHANGED <<written, lastSequence, mem, levels, compaction>>

ReleaseSnapshot(s) ==
  /\ s \in snapshots
  /\ snapshots' = snapshots \ {s}
  /\ UNCHANGED <<written, lastSequence, mem, levels, compaction>>

(* MUTANT of PickLevelForMemTableOutput: the next levels are not looked at.*)
PickAnyLevel(range) == 0 .. MaxMemCompactLevel

(* The levels a memtable may be pushed to: the first if it overlaps there, *)
(* else on as long as the next does not overlap; it may stop, for what     *)
(* overlaps one further on, but nowhere else.                              *)
PickLevelForMemTableOutput(range) ==
  LET free(l) == Overlapping(levels[l], range) = {}
      may(l)  == \A k \in 0 .. l : free(k)
      heavy(l) == l + 1 \in AllLevels /\ ~free(l + 1)
  IN  IF ~free(0) THEN {0}
      ELSE {l \in 0 .. MaxMemCompactLevel :
              /\ may(l)
              /\ \/ l = MaxMemCompactLevel
                 \/ ~may(l + 1)
                 \/ heavy(l + 1)}

(* CompactMemTable, by itself or in the middle of a compaction.            *)
CompactMemTable ==
  /\ mem # {}
  /\ \E l \in PickLevelForMemTableOutput(KeyRange({mem})) :
       levels' = [levels EXCEPT ![l] = @ \cup {mem}]
  /\ mem' = {}
  /\ UNCHANGED <<written, lastSequence, snapshots, compaction>>
-----------------------------------------------------------------------------
(* The tables of a level that overlap a range; in level 0 the range grows  *)
(* with each table found.                                                  *)
GetOverlappingInputs(level, range) ==
  LET grown[n \in 0 .. Cardinality(levels[level])] ==
        IF n = 0 THEN Overlapping(levels[level], range)
        ELSE IF level > 0 \/ grown[n - 1] = {} THEN grown[n - 1]
        ELSE Overlapping(levels[level], range \cup KeyRange(grown[n - 1]))
  IN  grown[Cardinality(levels[level])]

(* SetupOtherInputs: the tables of the next level; the tables of this one  *)
(* that fit in without adding to them may be taken too.                    *)
SetupOtherInputs(level, inputs0) ==
  LET inputs1   == GetOverlappingInputs(level + 1, KeyRange(inputs0))
      expanded0 == GetOverlappingInputs(level, KeyRange(inputs0 \cup inputs1))
      expanded1 == GetOverlappingInputs(level + 1, KeyRange(expanded0))
  IN  {<<inputs0, inputs1>>} \cup
      IF inputs1 # {} /\ Cardinality(expanded1) = Cardinality(inputs1)
      THEN {<<expanded0, expanded1>>} ELSE {}

(* DoCompactionWork begins: the snapshots are looked at once.              *)
Start(level, inputs0, manual) ==
  \E inputs \in SetupOtherInputs(level, inputs0) :
    compaction' = [level |-> level, inputs |-> inputs, base |-> levels,
                   manual |-> manual,
                   smallest |-> Min(snapshots \cup {lastSequence})]

(* PickCompaction: one table of a level that is too big, or that was       *)
(* sought too often.                                                       *)
PickCompaction(level, t) ==
  /\ compaction = None
  /\ Start(level, IF level = 0 THEN GetOverlappingInputs(0, KeyRange({t})) ELSE {t},
           FALSE)
  /\ UNCHANGED <<written, lastSequence, snapshots, mem, levels>>

(* CompactRange: the tables of a level in a range; above level 0 only the  *)
(* first of them, up to one, if they are big.                              *)
CompactRange(level, range) ==
  /\ Manual
  /\ compaction = None
  /\ LET found == GetOverlappingInputs(level, range)
     IN  /\ found # {}
         /\ \/ Start(level, found, TRUE)
            \/ /\ level > 0
               /\ \E t \in found : Start(level, {u \in found : u = t \/ Before(Largest(u), Largest(t))},
                                        TRUE)
  /\ UNCHANGED <<written, lastSequence, snapshots, mem, levels>>

(* IsTrivialMove: a single table just goes to the next level, at once.     *)
TrivialMove ==
  /\ compaction # None
  /\ ~compaction.manual /\ compaction.base = levels
  /\ Cardinality(compaction.inputs[1]) = 1 /\ compaction.inputs[2] = {}
  /\ levels' = [levels EXCEPT ![compaction.level] = @ \ compaction.inputs[1],
                              ![compaction.level + 1] = @ \cup compaction.inputs[1]]
  /\ compaction' = None
  /\ UNCHANGED <<written, lastSequence, snapshots, mem>>

(* MUTANT of IsBaseLevelForKey: deeper levels are not looked at.           *)
AlwaysBaseLevel(key) == TRUE

(* No table further down has the key in its range.                         *)
IsBaseLevelForKey(key) ==
  \A l \in compaction.level + 2 .. NumLevels - 1 : Overlapping(compaction.base[l], {key}) = {}

(* There is a newer entry for the key that all snapshots see: the one      *)
(* before this in the order.                                               *)
Hidden(e, entries) ==
  \E f \in entries : f.key = e.key /\ f.seq > e.seq /\ f.seq <= compaction.smallest

(* The entries a compaction keeps.                                         *)
Kept ==
  LET entries == UNION (compaction.inputs[1] \cup compaction.inputs[2])
  IN  {e \in entries :
         /\ ~Hidden(e, entries)
         /\ ~(e.deletion /\ e.seq <= compaction.smallest /\ IsBaseLevelForKey(e.key))}

(* The ways to cut entries into tables: between any two of them.           *)
Cuts(entries) ==
  {ends \in SUBSET entries :
     /\ Cardinality(ends) <= MaxOutputs
     /\ entries # {} => Largest(entries) \in ends}

Tables(entries, ends) ==
  {{e \in entries : ~Before(last, e) /\ \A f \in ends : Before(f, last) => Before(f, e)}
     : last \in ends}

(* The outputs take the place of the inputs.                               *)
InstallCompactionResults ==
  /\ compaction # None
  /\ \E ends \in Cuts(Kept) :
       levels' = [levels EXCEPT ![compaction.level] = @ \ compaction.inputs[1],
                                ![compaction.level + 1] =
                                   (@ \ compaction.inputs[2]) \cup Tables(Kept, ends)]
  /\ compaction' = None
  /\ UNCHANGED <<written, lastSequence, snapshots, mem>>

Next ==
  \/ \E key \in Keys, deletion \in Deletions : Write(key, deletion)
  \/ GetSnapshot
  \/ \E s \in snapshots : ReleaseSnapshot(s)
  \/ CompactMemTable
  \/ \E level \in 0 .. NumLevels - 2 : \E t \in levels[level] : PickCompaction(level, t)
  \/ \E level \in 0 .. NumLevels - 2 : CompactRange(level, Keys)
  \/ TrivialMove
  \/ InstallCompactionResults

Spec == Init /\ [][Next]_vars
-----------------------------------------------------------------------------
(* A lookup, now or with a snapshot, finds the newest entry it may see, as *)
(* if nothing had ever been moved or dropped (version_set.cc:344 "if we    *)
(* find data in an smaller level, later levels are irrelevant").           *)
LookupsAreRight ==
  \A key \in Keys : \A s \in snapshots \cup {lastSequence} :
    Get(key, s) = Value(Newest(written, key, s))

(* version_set.cc:765 "Must not overlap": in the levels after the first    *)
(* each table ends before the next begins.                                 *)
TablesAreDisjoint ==
  \A l \in AllLevels \ {0} : \A t, u \in levels[l] :
    t = u \/ Before(Largest(t), Smallest(u)) \/ Before(Largest(u), Smallest(t))
=============================================================================
