----------------------------- MODULE Linetable -----------------------------
(***************************************************************************)
(* Moving a frame to an offset of its code, by making that offset a line   *)
(* that f_lineno can name: crates/bpd_agent/src/linetable.rs.  The table   *)
(* that says which line each code unit is on is replaced, for as long as   *)
(* the frame is moved, by one that reads the same up to the offset and is  *)
(* on a line of its own from there.                                        *)
(*                                                                         *)
(* The compiler writes a table, entry by entry, and the frames of several  *)
(* threads that run its code are moved.  The tables are the real bytes:    *)
(* what can go wrong is in their encoding.  What a thread does is one step *)
(* when the interpreter is not given up on the way.  It is, when the move  *)
(* warns of locals it had to bind, which is code of the program, and       *)
(* anywhere on a build without a GIL.                                      *)
(***************************************************************************)
EXTENDS Integers, Sequences, FiniteSets, SequencesExt

CONSTANTS
    Threads,     \* those whose frames run the code
    Firsts,      \* the lines a code object may begin on
    Deltas,      \* how far the next entry may be from the line before it
    Spans,       \* how many code units an entry may cover
    MaxEntries,  \* how many entries a table may have
    Gil,         \* whether the build has a GIL
    Warns        \* whether a move may give the interpreter up

ASSUME SpansAssumption == Spans \subseteq 1..8
ASSUME FirstsAssumption == Firsts \subseteq Nat \ {0} /\ MaxEntries \in Nat

VARIABLES
    first,   \* co_firstlineno
    lines,   \* the line of each code unit, as the compiler has it; 0 for none
    real,    \* the table the compiler writes
    word,    \* the table that the code object's field holds
    moving   \* how far each thread has got

tvars == <<first, lines, real, word, moving>>

NoLine == 0

-----------------------------------------------------------------------------
(***************************************************************************)
(* Reading a table.                                                        *)
(***************************************************************************)

Low(p, bits) == p % bits

(* Six bits to a byte, and the sign in the lowest bit of what they make. *)
Signed(payload) ==
    LET ends  == {k \in DOMAIN payload : Low(payload[k] \div 64, 2) = 0}
        last  == CHOOSE k \in ends : \A j \in ends : k <= j
        value[k \in 0..last] ==
            IF k = 0 THEN 0 ELSE value[k - 1] + Low(payload[k], 64) * 64 ^ (k - 1)
    IN  IF Low(value[last], 2) = 1 THEN -(value[last] \div 2) ELSE value[last] \div 2

Starts(t) == {k \in DOMAIN t : t[k] >= 128}

Kind(t, k) == Low(t[k] \div 8, 16)

Covers(t, k) == Low(t[k], 8) + 1

Ends(t, k) == CHOOSE e \in k..Len(t) :
                  /\ \A j \in (k + 1)..e : j \notin Starts(t)
                  /\ e = Len(t) \/ e + 1 \in Starts(t)

HasLine(t, k) == Kind(t, k) # 15

StartLineDelta(t, k) ==
    CASE Kind(t, k) <= 9 \/ Kind(t, k) = 15 -> 0
      [] Kind(t, k) \in 10..12 -> Kind(t, k) - 10
      [] OTHER -> Signed(SubSeq(t, k + 1, Ends(t, k)))

(* The code units and the lines before an entry. *)
UnitsBefore(t, k) == FoldSet(LAMBDA j, n : n + Covers(t, j), 0, {j \in Starts(t) : j < k})

LineBefore(t, k) ==
    first + FoldSet(LAMBDA j, n : n + StartLineDelta(t, j), 0, {j \in Starts(t) : j < k})

(* The interpreter's own reading of it: a line for every code unit. *)
Reading(t) ==
    LET entries == SetToSortSeq(Starts(t), <)
        line(k) == IF HasLine(t, k) THEN LineBefore(t, k) + StartLineDelta(t, k) ELSE NoLine
    IN  FlattenSeq([n \in DOMAIN entries |->
            LET l == line(entries[n]) IN [u \in 1..Covers(t, entries[n]) |-> l]])

-----------------------------------------------------------------------------
(***************************************************************************)
(* Writing one.                                                            *)
(***************************************************************************)

SignedToUnsigned(value) == IF value < 0 THEN -2 * value + 1 ELSE 2 * value

Varint[value \in Nat] ==
    IF value < 64 THEN <<value>> ELSE <<Low(value, 64) + 64>> \o Varint[value \div 64]

Opens(kind, units) == 128 + kind * 8 + units - 1

NoColumns == 13

(* Mutant: every entry of a long tail carries the change. *)
EntriesEach(delta, units) ==
    FlattenSeq([n \in 1..((units + 7) \div 8) |->
        <<Opens(NoColumns, IF 8 * n <= units THEN 8 ELSE units - 8 * (n - 1))>>
            \o Varint[SignedToUnsigned(delta)]])

(* An entry covers at most eight units, and the first carries the change. *)
EntriesOf(delta, units) ==
    FlattenSeq([n \in 1..((units + 7) \div 8) |->
        <<Opens(NoColumns, IF 8 * n <= units THEN 8 ELSE units - 8 * (n - 1))>>
            \o Varint[SignedToUnsigned(IF n = 1 THEN delta ELSE 0)]])

Greatest(S) == CHOOSE n \in S : \A m \in S : m <= n

Sentinel(t) == Greatest({first} \cup ToSet(Reading(t))) + 1

(* What reads like t up to the target, and is on the sentinel from there.  *)
(* An entry that straddles it is written again for its first half.         *)
TailMarked(t, target) ==
    LET kept   == {k \in Starts(t) : UnitsBefore(t, k) + Covers(t, k) <= target}
        cut    == {k \in Starts(t) \ kept : UnitsBefore(t, k) < target}
        prefix == IF kept = {} THEN <<>> ELSE SubSeq(t, 1, Ends(t, Greatest(kept)))
        head(k) == LET units == target - UnitsBefore(t, k)
                   IN  IF HasLine(t, k) THEN EntriesOf(StartLineDelta(t, k), units)
                       ELSE <<Opens(15, units)>>
        running == first + FoldSet(LAMBDA j, n : n + StartLineDelta(t, j), 0, kept \cup cut)
    IN  prefix \o (IF cut = {} THEN <<>> ELSE head(Greatest(cut)))
               \o EntriesOf(Sentinel(t) - running, Len(Reading(t)) - target)

(* Where a reading starts a range of one line: ranges of a line that meet  *)
(* are one.                                                                *)
RangesOf(reading, line) ==
    {u \in DOMAIN reading : reading[u] = line /\ (u = 1 \/ reading[u - 1] # line)}

MarksOnce(reading, target, sentinel) == RangesOf(reading, sentinel) = {target + 1}

(* Where the interpreter lets f_lineno go: the starts of what is on the    *)
(* first marked line that is not before the line asked for.                *)
Candidates(reading, line) ==
    LET marked(u) == /\ reading[u] # NoLine
                     /\ LET before == {v \in 1..(u - 1) : reading[v] # NoLine}
                        IN  before = {} \/ reading[Greatest(before)] # reading[u]
        at == {u \in DOMAIN reading : marked(u) /\ reading[u] >= line}
    IN  {u \in at : \A v \in at : reading[u] <= reading[v]}

-----------------------------------------------------------------------------
(***************************************************************************)
(* The compiler, and the program that has run up to here.                  *)
(***************************************************************************)

Still == [at |-> "still", real |-> <<>>, target |-> 0, sentinel |-> 0, landed |-> {}]

TableInit ==
    /\ first \in Firsts
    /\ lines = <<>> /\ real = <<>> /\ word = <<>>
    /\ moving = [t \in Threads |-> Still]

(* The forms of an entry: without a change of line, with a small one,      *)
(* without columns, with all there is to say, and with nothing to say.     *)
Forms(delta) ==
    {<<NoColumns, Varint[SignedToUnsigned(delta)]>>,
     <<14, Varint[SignedToUnsigned(delta)] \o <<0, 65, 2>>>>}
    \cup (IF delta = 0 THEN {<<3, <<127>>>>} ELSE {})
    \cup (IF delta \in 0..2 THEN {<<10 + delta, <<127, 64>>>>} ELSE {})

Here == LineBefore(real, Len(real) + 1)

Encode(form, units, line) ==
    /\ Cardinality(Starts(real)) < MaxEntries
    /\ moving = [t \in Threads |-> Still]
    /\ real' = real \o <<Opens(form[1], units)>> \o form[2]
    /\ word' = real'
    /\ lines' = lines \o [u \in 1..units |-> line]
    /\ UNCHANGED <<first, moving>>

WriteEntry ==
    \E delta \in Deltas, units \in Spans : \E form \in Forms(delta) :
        Here + delta >= 1 /\ Encode(form, units, Here + delta)

WriteNoLine == \E units \in Spans : Encode(<<15, <<>>>>, units, NoLine)

-----------------------------------------------------------------------------
(***************************************************************************)
(* A move.                                                                 *)
(***************************************************************************)

IsAt(t, point) == moving[t].at = point

(* With a GIL nobody else is on the way, unless the move itself warns. *)
Mine(t) == ~Gil \/ \A o \in Threads \ {t} : moving[o].at \in {"still", "moved", "warning"}

(* An exit is inside the code and never its first unit. *)
ReadTable(t, target) ==
    /\ IsAt(t, "still") /\ Mine(t)
    /\ target \in 1..(Len(lines) - 1)
    /\ moving' = [moving EXCEPT ![t] = [@ EXCEPT !.at = "read", !.real = word, !.target = target]]
    /\ UNCHANGED <<first, lines, real, word>>

(* The slot is verified against what was read, and the table is swapped. *)
Swap(t) ==
    /\ IsAt(t, "read") /\ Mine(t)
    /\ IF word = moving[t].real
       THEN /\ word' = TailMarked(moving[t].real, moving[t].target)
            /\ moving' = [moving EXCEPT ![t] = [@ EXCEPT !.at = "swapped",
                                                         !.sentinel = Sentinel(moving[t].real)]]
       ELSE moving' = [moving EXCEPT ![t] = [@ EXCEPT !.at = "unusable"]] /\ UNCHANGED word
    /\ UNCHANGED <<first, lines, real>>

(* The interpreter reads it back before the frame is touched, then moves  *)
(* the frame to where it says.                                            *)
Move(t) ==
    /\ IsAt(t, "swapped") /\ Mine(t)
    /\ LET m == moving[t] IN
       \/ /\ MarksOnce(Reading(word), m.target, m.sentinel)
          /\ \E point \in {"landed"} \cup (IF Warns THEN {"warning"} ELSE {}) :
                moving' = [moving EXCEPT ![t] =
                    [@ EXCEPT !.at = point, !.landed = Candidates(Reading(word), m.sentinel)]]
       \/ /\ ~MarksOnce(Reading(word), m.target, m.sentinel)
          /\ moving' = [moving EXCEPT ![t] = [@ EXCEPT !.at = "unmarked"]]
    /\ UNCHANGED <<first, lines, real, word>>

(* The guard goes, on every way out. *)
PutBack(t) ==
    /\ moving[t].at \in {"landed", "warning", "unmarked"} /\ Mine(t)
    /\ word' = moving[t].real
    /\ moving' = [moving EXCEPT ![t].at = IF @ = "unmarked" THEN "unusable" ELSE "moved"]
    /\ UNCHANGED <<first, lines, real>>

TableNext ==
    \/ WriteEntry \/ WriteNoLine
    \/ \E t \in Threads :
        \/ \E target \in 1..(8 * MaxEntries) : ReadTable(t, target)
        \/ Swap(t) \/ Move(t) \/ PutBack(t)

TableSpec == TableInit /\ [][TableNext]_tvars

-----------------------------------------------------------------------------
(***************************************************************************)
(* Properties.                                                             *)
(***************************************************************************)

TableTypeOK ==
    /\ first \in Firsts
    /\ lines \in Seq(Nat)
    /\ real \in Seq(0..255) /\ word \in Seq(0..255)
    /\ moving \in [Threads ->
          [at : {"still", "read", "swapped", "landed", "warning", "unmarked", "moved", "unusable"},
           real : Seq(0..255), target : Nat, sentinel : Nat, landed : SUBSET Nat]]

(* While a table is swapped in, every unit below the target is on the line *)
(* it was always on, and every one from there on a line that no other is:  *)
(* the interpreter never reads anything else out of what bpd wrote, and    *)
(* has one place to send the frame, the one it was meant to go to.         *)
(* (linetable.rs:18, 23 and 141)                                           *)
LandsWhereSent ==
    \A t \in Threads :
        LET m == moving[t] IN
        /\ m.at \in {"swapped", "landed", "warning"}
           => /\ m.sentinel \notin ToSet(lines)
              /\ Reading(word) = [u \in DOMAIN lines |->
                                     IF u <= m.target THEN lines[u] ELSE m.sentinel]
        /\ m.at \in {"landed", "warning", "moved"} => m.landed = {m.target + 1}
        /\ m.at \notin {"unmarked", "unusable"}

(* When nobody is moving a frame, the field holds what the compiler wrote. *)
(* (linetable.rs:155)                                                      *)
TableIsPutBack ==
    (\A t \in Threads : moving[t].at \in {"still", "moved", "unusable"}) => word = real

=============================================================================
