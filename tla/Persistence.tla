---------------------------- MODULE Persistence ----------------------------
(***************************************************************************)
(* Saving and loading of hnswlib/hnswalg.h, write by write, on a disk that *)
(* may be full or refuse to open a file, with crashes in between.          *)
(*                                                                         *)
(* Save takes the handle's lock shared, so several goroutines may save at  *)
(* once, also to one file, while no call changes the index.  The bytes of  *)
(* a file are abstracted to cells: the fields the load looks at have two   *)
(* cells, so that a file can end inside one.  A cell was either written or *)
(* lies in a hole and reads as zero: a writer goes on at its own offset in *)
(* a file that another one has truncated.                                  *)
(***************************************************************************)
EXTENDS Integers, Sequences

CONSTANTS
  Saver,         \* the goroutines that call Save
  Capacities,    \* values of max_elements_, and of the argument of Load
  MaxElements,   \* bound: elements of the index
  MaxLevel,      \* bound: the highest level of an element
  MaxSaves,      \* bound: calls of Save
  Faults         \* may a file fail to open, a write fail, the process crash?

PersistenceAssumption ==
  /\ Capacities \subseteq Nat \ {0} /\ \A c \in Capacities : c >= MaxElements
  /\ MaxElements \in Nat \ {0} /\ MaxLevel \in Nat /\ MaxSaves \in Nat
  /\ Faults \in BOOLEAN

VARIABLES
  index,     \* the index: max_elements_ and the levels of its elements
  file,      \* the file: the index it was written from, and its cells
  pos,       \* saver -> the offset of its stream, or Idle
  good,      \* saver -> can its stream still write?
  saves,     \* calls of Save so far
  mishaps,   \* of "overlap" (of two saves) and "fault": what has happened (history)
  loaded     \* what the last Load returned

vars == <<index, file, pos, good, saves, mishaps, loaded>>

Idle     == -1
Missing  == [of |-> "no file"]
Rejected == [index |-> "rejected"]
Nothing  == [index |-> "nothing"]
Element  == 1 .. MaxElements

-----------------------------------------------------------------------------
(* The layout of a file.                                                   *)

MaxAt   == 0        \* offset of max_elements_
CountAt == 2        \* offset of cur_element_count
Header  == 5        \* size of the header: the other fields are one cell
Field   == 2        \* size of linkListSize
Entry   == 2        \* size_data_per_element_
ListsOf(l) == l     \* linkListSize: size_links_per_element_ is one cell

(* Where the link lists of element i begin, if the levels are these.       *)
BlockAt(levels, i) ==
  LET P[j \in 1 .. Len(levels) + 1] ==
        IF j = 1 THEN Header + Entry * Len(levels)
        ELSE P[j - 1] + Field + ListsOf(levels[j - 1])
  IN  P[i]

(* indexFileSize                                                           *)
IndexFileSize(ix) == BlockAt(ix.levels, Len(ix.levels) + 1)

Written(f, from, n) == \A i \in from + 1 .. from + n : f.cells[i]
Hole(f, from, n)    == \A i \in from + 1 .. from + n : ~f.cells[i]
Complete(f) == Len(f.cells) = IndexFileSize(f.of) /\ Written(f, 0, Len(f.cells))

-----------------------------------------------------------------------------
(* saveIndex                                                               *)

Init ==
  /\ \E c \in Capacities : index = [max |-> c, levels |-> <<>>]
  /\ file = Missing
  /\ pos = [s \in Saver |-> Idle]
  /\ good = [s \in Saver |-> TRUE]
  /\ saves = 0 /\ mishaps = {}
  /\ loaded = Nothing

(* Any call that changes the index, or frees it for a new one to take its  *)
(* place, excludes Save.                                                   *)
Change ==
  /\ \A s \in Saver : pos[s] = Idle
  /\ \/ /\ Len(index.levels) < MaxElements
        /\ \E l \in 0 .. MaxLevel : index' = [index EXCEPT !.levels = Append(@, l)]
     \/ \E c \in Capacities : index' = [max |-> c, levels |-> <<>>]
  /\ UNCHANGED <<file, pos, good, saves, mishaps, loaded>>

(* Bug: a save over a longer file would leave its end.                     *)
OpenKeepsContent(s) ==
  /\ pos[s] = Idle /\ saves < MaxSaves
  /\ saves' = saves + 1
  /\ pos' = [pos EXCEPT ![s] = 0]
  /\ file' = [of |-> index, cells |-> IF file = Missing THEN <<>> ELSE file.cells]
  /\ UNCHANGED <<index, good, mishaps, loaded>>

(* Opening truncates the file.  A file that does not open is not noticed:  *)
(* the stream drops all it is given.                                       *)
Open(s) ==
  /\ pos[s] = Idle /\ saves < MaxSaves
  /\ saves' = saves + 1
  /\ pos' = [pos EXCEPT ![s] = 0]
  /\ \/ file' = [of |-> index, cells |-> <<>>] /\ good' = [good EXCEPT ![s] = TRUE]
     \/ Faults /\ UNCHANGED file /\ good' = [good EXCEPT ![s] = FALSE]
  /\ mishaps' = mishaps \union (IF \E t \in Saver : pos[t] # Idle THEN {"overlap"} ELSE {})
                         \union (IF good'[s] THEN {} ELSE {"fault"})
  /\ UNCHANGED <<index, loaded>>

(* Cells from..to-1 are written; what lies between them and the end is a   *)
(* hole.                                                                   *)
Put(f, from, to) ==
  [f EXCEPT !.cells = [i \in 1 .. (IF to > Len(@) THEN to ELSE Len(@)) |->
                         i \in from + 1 .. to \/ (i <= Len(@) /\ @[i])]]

(* The stream hands some more of its content to the file; a write that     *)
(* fails half way ends all writing.                                        *)
Write(s) ==
  /\ pos[s] # Idle /\ good[s]
  /\ \E to \in pos[s] .. IndexFileSize(index) :
       /\ file' = Put(file, pos[s], to)
       /\ pos' = [pos EXCEPT ![s] = to]
       /\ \/ to > pos[s] /\ UNCHANGED <<good, mishaps>>
          \/ /\ Faults /\ to < IndexFileSize(index)
             /\ good' = [good EXCEPT ![s] = FALSE]
             /\ mishaps' = mishaps \union {"fault"}
  /\ UNCHANGED <<index, saves, loaded>>

(* close, and Save returns nil, whatever became of the writes.             *)
Close(s) ==
  /\ pos[s] # Idle
  /\ good[s] => pos[s] = IndexFileSize(index)
  /\ pos' = [pos EXCEPT ![s] = Idle]
  /\ good' = [good EXCEPT ![s] = TRUE]
  /\ UNCHANGED <<index, file, saves, mishaps, loaded>>

(* The process dies.  What the file has got stays; an index is made anew.  *)
Crash ==
  /\ Faults /\ \E s \in Saver : pos[s] # Idle
  /\ pos' = [s \in Saver |-> Idle]
  /\ good' = [s \in Saver |-> TRUE]
  /\ index' = [index EXCEPT !.levels = <<>>]
  /\ mishaps' = mishaps \union {"fault"}
  /\ UNCHANGED <<file, saves, loaded>>

-----------------------------------------------------------------------------
(* loadIndex                                                               *)

(* What a field of two cells at offset `at' may be read as, if the writer  *)
(* put v there: a hole is zero and a field half written anything.          *)
Reads(f, at, v, all) ==
  IF at + Field > Len(f.cells) THEN {}
  ELSE IF Written(f, at, Field) THEN {v}
  ELSE IF Hole(f, at, Field) THEN {0}
  ELSE all

(* The level that lies at an offset: only the writer's own blocks have one *)
LevelAt(f, at) ==
  LET here == {i \in DOMAIN f.of.levels : BlockAt(f.of.levels, i) = at}
  IN  IF here = {} THEN 0 .. MaxLevel ELSE {f.of.levels[i] : i \in here}

(* The corruption check follows the link sizes of count elements from one  *)
(* block to the next within the file: the levels it has read on the way,   *)
(* and where it has come to.                                               *)
Blocks(f, start, count) ==
  LET after[n \in 0 .. count] ==
        IF n = 0 THEN {[levels |-> <<>>, at |-> start]}
        ELSE UNION {{[levels |-> Append(b.levels, l), at |-> b.at + Field + ListsOf(l)] :
                       l \in UNION {Reads(f, b.at, v, 0 .. MaxLevel) : v \in LevelAt(f, b.at)}} :
                     b \in {c \in after[n - 1] : c.at < Len(f.cells)}}
  IN  after[count]

(* A header whose other fields lie in a hole gives entries of size 0.      *)
FirstBlock(f, count) == Header + (IF f.cells[Header] THEN Entry ELSE 0) * count

(* Bug: the end of the last block is not compared with the end of the file *)
LevelsReadLoosely(f, count) == {b.levels : b \in Blocks(f, FirstBlock(f, count), count)}

(* All the sequences of levels the load can end up with: the last block    *)
(* ends exactly where the file does.                                       *)
LevelsRead(f, count) ==
  {b.levels : b \in {c \in Blocks(f, FirstBlock(f, count), count) : c.at = Len(f.cells)}}

(* The indexes a load of f may yield.  A header that ends too early leaves *)
(* the stream failed, and the check refuses it.  With a capacity too small *)
(* for the file, the saved one is taken.                                   *)
Loads(f, max) ==
  IF f = Missing \/ Len(f.cells) < Header THEN {}
  ELSE UNION {{[max |-> IF max < c THEN m ELSE max, levels |-> ls] :
                 m \in Reads(f, MaxAt, f.of.max, Capacities), ls \in LevelsRead(f, c)} :
               c \in Reads(f, CountAt, Len(f.of.levels), 0 .. MaxElements)}

Load(max) ==
  /\ LET found == Loads(file, max)
     IN  loaded' \in IF found = {} THEN {Rejected}
                    ELSE {[index |-> ix, of |-> file.of, whole |-> Complete(file)] : ix \in found}
  /\ UNCHANGED <<index, file, pos, good, saves, mishaps>>

Next ==
  \/ Change \/ Crash
  \/ \E s \in Saver : Open(s) \/ Write(s) \/ Close(s)
  \/ \E max \in Capacities \union {0} : Load(max)

Spec == Init /\ [][Next]_vars

-----------------------------------------------------------------------------
(* Properties.                                                             *)

Indexes == [max : Capacities, levels : UNION {[1 .. n -> 0 .. MaxLevel] : n \in 0 .. MaxElements}]

(* Types: the index, the file and the streams are well formed, no stream   *)
(* is past the end of what it writes, and none that can still write is     *)
(* ahead of the file without another saver having truncated it.            *)
TypeOK ==
  /\ index \in Indexes
  /\ file # Missing =>
       /\ file.of \in Indexes
       /\ file.cells \in Seq(BOOLEAN)
       /\ Len(file.cells) <= IndexFileSize(file.of)
  /\ \A s \in Saver : pos[s] \in Idle .. IndexFileSize(index)
  /\ good \in [Saver -> BOOLEAN]
  /\ saves \in 0 .. MaxSaves

(* As long as no two saves have overlapped, a file a load accepts is the   *)
(* whole of what was saved: after a full disk or a crash in the middle of  *)
(* a save, loadIndex refuses the file, and it never makes an index with    *)
(* other levels than the saved one or with less room than elements.  And a *)
(* file that was written whole is loaded by every later Load, whatever     *)
(* capacity is asked for, and gives back the saved elements.               *)
LoadExact ==
  /\ "overlap" \notin mishaps /\ loaded \notin {Nothing, Rejected} =>
       /\ loaded.whole
       /\ loaded.index.levels = loaded.of.levels
       /\ loaded.index.max >= Len(loaded.index.levels)
  /\ file # Missing /\ Complete(file) =>
       \A max \in Capacities \union {0} :
         LET found == Loads(file, max)
         IN  found # {} /\ \A ix \in found : ix.levels = file.of.levels /\ ix.max >= Len(ix.levels)

(* Without faults, once nobody saves any more the file is whole, however   *)
(* many goroutines saved to it at the same time.                           *)
QuietFileComplete ==
  "fault" \notin mishaps /\ file # Missing /\ (\A s \in Saver : pos[s] = Idle) => Complete(file)

=============================================================================
