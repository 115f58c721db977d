------------------------------- MODULE Xargs -------------------------------
(***************************************************************************)
(* xargs (ex_admin.c): the items of the input are handed to commands, at   *)
(* most "per" at a time or, with -I, one by one in the place of REPL.      *)
(* A command may fail to start, exit with a code or die of a signal.       *)
(*                                                                         *)
(* An item is where it lies in the input (the program keeps pointers into  *)
(* it); an argument of the command is a sequence of letters and of REPL,   *)
(* which stands for the ReplSize letters of the option.                    *)
(***************************************************************************)
EXTENDS Integers, SequencesExt

CONSTANTS XargsCalls,   \* [input, per, mode, runEmpty, base]
          XargsCodes,   \* exit statuses of commands, 127 for one not found
          ReplSize,     \* strlen(REPL)
          NoMemory      \* TRUE if allocations may fail

Space == "sp"
Repl == "R"

ASSUME XargsAssumption ==
  /\ XargsCodes \subseteq Nat /\ ReplSize \in Nat \ {0}
  /\ XargsCalls \subseteq [input : Seq(STRING), per : Int, mode : {"batch", "replace"},
                           runEmpty : BOOLEAN, base : Seq(Seq(STRING))]

VARIABLES call, cutAt, items, next, ran, codes, rcx, xpc
xargsVars == <<call, cutAt, items, next, ran, codes, rcx, xpc>>

XargsInit ==
  /\ call \in XargsCalls /\ cutAt = 0 /\ items = <<>> /\ next = 1
  /\ ran = <<>> /\ codes = <<>> /\ rcx = 0 /\ xpc = "split"

\* no separator, or nothing but separators, from the a-th letter to the b-th
Word(a, b) == \A i \in a..b : call.input[i] # Space
Gap(a, b) == \A i \in a..b : call.input[i] = Space
Least(a, b) == IF a <= b THEN a ELSE b

\* the next item, and the separator that ends it
CutItem ==
  /\ xpc = "split"
  /\ \E a \in cutAt + 1..Len(call.input) : \E b \in a..Len(call.input) :
       /\ Gap(cutAt + 1, a - 1) /\ Word(a, b)
       /\ b < Len(call.input) => call.input[b + 1] = Space
       /\ items' = Append(items, [from |-> a, to |-> b])
       /\ cutAt' = Least(b + 1, Len(call.input))
  /\ UNCHANGED <<call, next, ran, codes, rcx, xpc>>

\* Mutant of AllCut: what ends the input must be a separator.
AllCutEnded ==
  /\ xpc = "split" /\ xpc' = "batch"
  /\ Gap(cutAt + 1, Len(call.input) - 1)
  /\ UNCHANGED <<call, cutAt, items, next, ran, codes, rcx>>

AllCut ==
  /\ xpc = "split" /\ xpc' = "batch"
  /\ Gap(cutAt + 1, Len(call.input))
  /\ UNCHANGED <<call, cutAt, items, next, ran, codes, rcx>>

Letters(item) == SubSeq(call.input, item.from, item.to)
Substituted(arg, item) ==
  FlattenSeq([i \in 1..Len(arg) |-> IF arg[i] = Repl THEN Letters(item) ELSE <<arg[i]>>])

\* what the substitution writes, with its 0, and the room malloc gave for it,
\* strlen(arg) * 2 + strlen(item) + 1
Repls(arg) == Cardinality({i \in 1..Len(arg) : arg[i] = Repl})
Size(item) == item.to - item.from + 1
Spelled(arg, item) == Len(arg) - Repls(arg) + Repls(arg) * Size(item) + 1
Room(arg, item) == 2 * (Len(arg) + Repls(arg) * (ReplSize - 1)) + Size(item) + 1
Fits(arg, item) == Spelled(arg, item) <= Room(arg, item)
Per == IF call.mode = "replace" \/ call.per <= 0 THEN 1 ELSE call.per
\* the command line for the items from the a-th to the b-th
CommandLine(a, b) ==
  IF call.mode = "replace" /\ items # <<>>
  THEN [k \in 1..Len(call.base) |-> Substituted(call.base[k], items[a])]
  ELSE call.base \o [k \in 1..b - a + 1 |-> Letters(items[a + k - 1])]

More == next <= Len(items) \/ (items = <<>> /\ call.runEmpty /\ codes = <<>>)

AllFit == call.mode = "replace" /\ items # <<>> =>
            \A k \in 1..Len(call.base) : Fits(call.base[k], items[next])

\* xargs_run; the larger status is kept.  A fork that fails gives -1.
xargs_run ==
  /\ xpc = "batch" /\ More /\ AllFit
  /\ LET last == Least(next + Per - 1, Len(items))
     IN  /\ \/ \E c \in XargsCodes :
                 /\ ran' = Append(ran, CommandLine(next, last)) /\ codes' = Append(codes, c)
                 /\ rcx' = IF c > rcx \/ items = <<>> THEN c ELSE rcx
            \/ /\ codes' = Append(codes, -1) /\ UNCHANGED ran
               /\ rcx' = IF items = <<>> THEN -1 ELSE rcx
         /\ next' = last + 1
  /\ UNCHANGED <<call, cutAt, items, xpc>>

\* malloc or realloc fails, before the input is cut or before a command
XargsNoMemory ==
  /\ xpc = "split" \/ (xpc = "batch" /\ More)
  /\ NoMemory /\ xpc' = "failed" /\ rcx' = 1
  /\ UNCHANGED <<call, cutAt, items, next, ran, codes>>

\* The item is written past the end of its buffer: what the program does from
\* then on is undefined, and the model says nothing of it.
XargsOverflow ==
  /\ xpc = "batch" /\ More /\ ~AllFit /\ xpc' = "broken"
  /\ UNCHANGED <<call, cutAt, items, next, ran, codes, rcx>>

XargsDone ==
  /\ xpc = "batch" /\ ~More /\ xpc' = "done"
  /\ UNCHANGED <<call, cutAt, items, next, ran, codes, rcx>>

XargsNext == CutItem \/ AllCut \/ xargs_run \/ XargsNoMemory \/ XargsOverflow \/ XargsDone
XargsSpec == XargsInit /\ [][XargsNext]_xargsVars

XargsOff ==
  /\ call = <<>> /\ cutAt = 0 /\ items = <<>> /\ next = 1 /\ ran = <<>> /\ codes = <<>> /\ rcx = 0
  /\ xpc = "off"

(***************************************************************************)
(* What xargs promises.                                                    *)
(***************************************************************************)
\* a word of the input from end to end
IsItem(item) ==
  /\ item.from \in 1..item.to /\ item.to \in 1..Len(call.input)
  /\ Word(item.from, item.to)
  /\ item.from > 1 => call.input[item.from - 1] = Space
  /\ item.to < Len(call.input) => call.input[item.to + 1] = Space

\* the command got what it is to be called with, and the items from a to b
IsCalledWith(line, a, b) ==
  IF call.mode = "batch"
  THEN /\ Len(line) = Len(call.base) + (b - a + 1)
       /\ \A k \in 1..Len(call.base) : line[k] = call.base[k]
       /\ \A i \in a..b : line[Len(call.base) + (i - a + 1)] = Letters(items[i])
  ELSE /\ a = b /\ Len(line) = Len(call.base)
       /\ \A k \in 1..Len(call.base) : line[k] = Substituted(call.base[k], items[a])

(* Every item of the input reaches exactly one command, whole and in       *)
(* order, in batches of the size asked for; the status is 0 only if every  *)
(* command ended with 0, and the largest of them otherwise.  Two cases are *)
(* set apart: a fork that fails loses its items and is not seen in the     *)
(* status (ex_admin.c:431), and where REPL stands twice or more in one     *)
(* argument a long item does not fit the buffer of its substitution        *)
(* (ex_admin.c:521); where it stands once it fits, however long.           *)
BatchesRunEachItem ==
  /\ xpc = "broken" => \E k \in 1..Len(call.base) : Repls(call.base[k]) > 1
  /\ xpc \in {"batch", "done"} =>
       /\ \A i \in 1..Len(items) : IsItem(items[i])
       /\ \A i, j \in 1..Len(items) : i < j => items[i].to < items[j].from
       /\ \A p \in 1..Len(call.input) :
            call.input[p] # Space => \E i \in 1..Len(items) : p \in items[i].from..items[i].to
  /\ xpc = "done" /\ (\A i \in 1..Len(codes) : codes[i] # -1) =>
       /\ \A i \in 1..Len(codes) : codes[i] <= rcx
       /\ rcx = 0 \/ \E i \in 1..Len(codes) : rcx = codes[i]
       /\ items = <<>> => ran = IF call.runEmpty THEN <<call.base>> ELSE <<>>
       /\ items # <<>> =>
            /\ (Len(ran) - 1) * Per < Len(items) /\ Len(items) <= Len(ran) * Per
            /\ \A k \in 1..Len(ran) :
                 IsCalledWith(ran[k], (k - 1) * Per + 1, Least(k * Per, Len(items)))
=============================================================================
