----------------------------- MODULE ScanLedger -----------------------------
(***************************************************************************)
(* _append_bounded of scan_ledger.py: the workers' processes append to one  *)
(* JSONL file with no lock, and whoever finds it large rewrites it with its *)
(* newest lines.                                                            *)
(*                                                                          *)
(*   idle -> stat [-> read [-> truncate -> write]] -> idle                  *)
(*                                                                          *)
(* The file is a sequence of cells, a record is a line of 1 .. MaxSize      *)
(* cells whose last one holds the newline.  A process that dies and a disk  *)
(* that is full cut what is being written; the next record is then put on   *)
(* the line of a cut one.  A rewrite that comes late covers the first cells *)
(* of what was appended meanwhile, and may cut a line.  Every write of the  *)
(* program is one write of the file.                                        *)
(***************************************************************************)
EXTENDS Integers, FiniteSets, Sequences, SequencesExt

CONSTANTS
    Writer,
    MaxSize,
    Threshold,   \* the size from which a rewrite is considered, in cells
    Keep,        \* how many lines a rewrite leaves
    MaxRecords,  \* bound: how many records are appended
    MaxFaults    \* bound: how many times a process dies or a disk is full

ASSUME ScanLedgerAssumption ==
    /\ IsFiniteSet(Writer)
    /\ MaxSize \in Nat \ {0} /\ Threshold \in Nat /\ Keep \in Nat \ {0}
    /\ MaxRecords \in Nat /\ MaxFaults \in Nat

VARIABLES
    file,
    pc,      \* pc[w]
    newest,  \* newest[w]: the lines w will leave
    size,    \* size[r]: the size of record r; records are numbered as appended
    faults,
    cuts,    \* how many appends were cut short
    spoiled  \* a rewrite was raced by another step on the file, or cut short

vars == <<file, pc, newest, size, faults, cuts, spoiled>>

Records == DOMAIN size
Cell == [rec : 1 .. MaxRecords, part : 1 .. MaxSize, nl : BOOLEAN]

IsEnd(cell) == cell.nl
LineOf(r, n) == [k \in 1 .. n |-> [rec |-> r, part |-> k, nl |-> k = n]]
Line(r) == LineOf(r, size[r])

\* splitlines(): a cell continues the line before it, unless that has ended.
Lines(f) ==
    LET lines[i \in 0 .. Len(f)] ==
          IF i = 0 THEN <<>>
          ELSE IF i = 1 \/ IsEnd(f[i - 1]) THEN Append(lines[i - 1], <<f[i]>>)
          ELSE [lines[i - 1] EXCEPT ![Len(lines[i - 1])] = Append(@, f[i])]
    IN lines[Len(f)]

TypeOK ==
    /\ size \in Seq(1 .. MaxSize) /\ Len(size) <= MaxRecords
    /\ file \in Seq(Cell)
    /\ pc \in [Writer -> {"idle", "stat", "read", "truncate", "write"}]
    /\ \A w \in Writer : newest[w] \in Seq(Seq(Cell)) /\ Len(newest[w]) <= Keep
    /\ faults \in 0 .. MaxFaults
    /\ cuts \in 0 .. faults
    /\ spoiled \in BOOLEAN

Init ==
    /\ file = <<>>
    /\ pc = [w \in Writer |-> "idle"]
    /\ newest = [w \in Writer |-> <<>>]
    /\ size = <<>>
    /\ faults = 0
    /\ cuts = 0
    /\ spoiled = FALSE

Goto(w, there) == pc' = [pc EXCEPT ![w] = there]
Fault == faults < MaxFaults /\ faults' = faults + 1

\* Some other process is between its read and its write.
Rewriting(w) == \E v \in Writer \ {w} : pc[v] \in {"truncate", "write"}
Races(w) == spoiled' = (spoiled \/ Rewriting(w))

\* One write of an O_APPEND file: the record and its newline.
AppendLine(w) ==
    /\ pc[w] = "idle"
    /\ Len(size) < MaxRecords
    /\ \E n \in 1 .. MaxSize :
         /\ size' = Append(size, n)
         /\ file' = file \o LineOf(Len(size) + 1, n)
    /\ Races(w)
    /\ Goto(w, "stat")
    /\ UNCHANGED <<newest, faults, cuts>>

\* It is cut short, if only before the newline; record_block swallows what the
\* call raises.
AppendCut(w) ==
    /\ pc[w] = "idle"
    /\ Len(size) < MaxRecords
    /\ \E n \in 1 .. MaxSize : \E m \in 0 .. n :
         /\ size' = Append(size, n)
         /\ file' = file \o [k \in 1 .. m |->
                            [LineOf(Len(size) + 1, n)[k] EXCEPT !.nl = FALSE]]
    /\ Races(w)
    /\ Fault
    /\ cuts' = cuts + 1
    /\ UNCHANGED <<pc, newest>>

\* Mutant: a file of just the threshold is small.
StatLoose(w) ==
    /\ pc[w] = "stat"
    /\ Goto(w, IF Len(file) <= Threshold THEN "idle" ELSE "read")
    /\ UNCHANGED <<file, newest, size, faults, cuts, spoiled>>

Stat(w) ==
    /\ pc[w] = "stat"
    /\ Goto(w, IF Len(file) < Threshold THEN "idle" ELSE "read")
    /\ UNCHANGED <<file, newest, size, faults, cuts, spoiled>>

\* "\n".join(lines) + "\n": the last line ends too, where it did or not.
Ends(line, nl) == [line EXCEPT ![Len(line)] = [@ EXCEPT !.nl = nl]]
Joined(lines, nl) == [lines EXCEPT ![Len(lines)] = Ends(@, nl)]

\* The rewrite of the lines chosen from .. to, if there are more than are kept.
Rewrite(w, from, to, nl) ==
    /\ pc[w] = "read"
    /\ IF Len(Lines(file)) > Keep
         THEN newest' = [newest EXCEPT ![w] = Joined(SubSeq(Lines(file), from, to), nl)]
              /\ Goto(w, "truncate")
         ELSE Goto(w, "idle") /\ UNCHANGED newest
    /\ UNCHANGED <<file, size, faults, cuts, spoiled>>

\* Mutant: lines[:keep].
ReadOldest(w) == Rewrite(w, 1, Keep, TRUE)

\* Mutant: "\n".join(lines[-keep:]), without the last newline.
ReadUnended(w) == Rewrite(w, Len(Lines(file)) - Keep + 1, Len(Lines(file)), FALSE)

\* "\n".join(lines[-keep:]) + "\n".
Read(w) == Rewrite(w, Len(Lines(file)) - Keep + 1, Len(Lines(file)), TRUE)

\* write_text opens the file for writing ...
Truncate(w) ==
    /\ pc[w] = "truncate"
    /\ file' = <<>>
    /\ Races(w)
    /\ Goto(w, "write")
    /\ UNCHANGED <<newest, size, faults, cuts>>

\* The first m cells of the text, over what was appended since the file was opened.
Written(text, m) == SubSeq(text, 1, m) \o SubSeq(file, m + 1, Len(file))

\* ... and writes from its start ...
Write(w) ==
    /\ pc[w] = "write"
    /\ LET text == FlattenSeq(newest[w]) IN file' = Written(text, Len(text))
    /\ Races(w)
    /\ newest' = [newest EXCEPT ![w] = <<>>]
    /\ Goto(w, "idle")
    /\ UNCHANGED <<size, faults, cuts>>

\* ... or only a part, or nothing.
WriteCut(w) ==
    /\ pc[w] = "write"
    /\ LET text == FlattenSeq(newest[w])
       IN \E m \in 0 .. Len(text) - 1 : file' = Written(text, m)
    /\ Fault
    /\ spoiled' = TRUE
    /\ newest' = [newest EXCEPT ![w] = <<>>]
    /\ Goto(w, "idle")
    /\ UNCHANGED <<size, cuts>>

\* The process dies between two calls, or one that writes nothing raises.
Fails(w) ==
    /\ pc[w] \in {"stat", "read", "truncate"}
    /\ Fault
    /\ newest' = [newest EXCEPT ![w] = <<>>]
    /\ Goto(w, "idle")
    /\ UNCHANGED <<file, size, cuts, spoiled>>

Next == \E w \in Writer :
    \/ AppendLine(w) \/ AppendCut(w)
    \/ Stat(w) \/ Read(w) \/ Truncate(w) \/ Write(w) \/ WriteCut(w)
    \/ Fails(w)

Spec == Init /\ [][Next]_vars

(***************************************************************************)
(* Properties.                                                             *)
(***************************************************************************)

Settled == \A w \in Writer : pc[w] # "write"

\* "losing a rotation race loses log fidelity" (scan_ledger.py): as long as no
\* rewrite is raced or cut short, and no append is, the ledger is the newest
\* records, at least Keep of them, whole and in their order.  Processes that die
\* between two calls cost nothing.
NewestUnlessSpoiled ==
    ~spoiled /\ cuts = 0 /\ Settled =>
      \E first \in 1 .. Len(size) + 1 :
        /\ Lines(file) = [k \in 1 .. Len(size) + 1 - first |-> Line(first + k - 1)]
        /\ first > 1 => Len(size) + 1 - first >= Keep

\* json.loads takes the line: it is all of one record, and nothing else.
Readable(line) ==
    LET r == line[1].rec
    IN Len(line) = size[r]
       /\ \A k \in DOMAIN line : line[k].rec = r /\ line[k].part = k

\* An append that is cut short spoils one line, also when the ledger is then
\* rewritten: of the newest records the readers of the ledger (_iter_jsonl)
\* miss that one and at most the next, which was put on its line.
CutsAreConfined ==
    ~spoiled /\ Settled =>
      LET read == SelectSeq(Lines(file), Readable)
          recs == {read[i][1].rec : i \in DOMAIN read} IN
        /\ Len(Lines(file)) - Len(read) <= cuts
        /\ \A i, j \in DOMAIN read : i < j => read[i][1].rec < read[j][1].rec
        /\ \E first \in 1 .. Len(size) + 1 :
             /\ first > 1 => Len(size) + 1 - first >= Keep
             /\ recs \subseteq first .. Len(size)
             /\ Cardinality((first .. Len(size)) \ recs) <= 2 * cuts

\* "an unattended box can't grow this file forever": an appender that nobody
\* interrupts leaves a file that is small or has Keep lines, cut or not, unless
\* a rewrite was spoiled.
RotationBounds ==
    [][\A w \in Writer :
         pc[w] # "idle" /\ pc'[w] = "idle" /\ faults' = faults /\ ~spoiled
           => Len(file') < Threshold \/ Len(Lines(file')) <= Keep]_vars
=============================================================================
