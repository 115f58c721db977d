---------------------------- MODULE FormatTools ----------------------------
(***************************************************************************)
(* ex_fmt.c: nl, rev, strings, base64, cmp, diff and the addressing of od  *)
(* and hexdump; and ex_grep.c.                                             *)
(***************************************************************************)
EXTENDS TextTools

CONSTANT Ctx              \* equal lines diff -u shows around a change: 3

\* nl: the number of each line, or NoNumber; the count goes on over the files
NoNumber == -1
nl_emit(ls, all, num, incr) ==
  FoldLeft(LAMBDA s, l :
             IF l = <<>> /\ ~all
             THEN [s EXCEPT !.out = Append(@, <<NoNumber, l>>)]
             ELSE [out |-> Append(s.out, <<s.num, l>>), num |-> s.num + incr],
           [out |-> <<>>, num |-> num], ls)
cact_ub_nl(files, all, start, incr) ==
  LET given == SelectSeq(files, LAMBDA f : f # Missing)
      file(s, f) == LET e == nl_emit(split_lines(f), all, s.num, incr)
                    IN  [out |-> s.out \o e.out, num |-> e.num]
  IN  Answer(FoldLeft(file, [out |-> <<>>, num |-> start], given).out,
             IF Len(given) < Len(files) THEN 1 ELSE 0)

rev_emit(t) ==
  LET rs == records(t)
      turn(r) == IF Last(r) = NL THEN Append(Reverse(Front(r)), NL) ELSE Reverse(r)
  IN  Concat([k \in 1..Len(rs) |-> turn(rs[k])])
cact_ub_rev(files) == PerFile(rev_emit, files)

\* strings: runs of printable characters, with their offsets
strings_emit(t, minlen) ==
  LET text(k) == isprint(t[k]) \/ t[k] = TAB
      starts == {k \in 1..Len(t) : text(k) /\ (k = 1 \/ ~text(k - 1))}
      stop(k) == CHOOSE e \in k..Len(t) :
                   (\A x \in k..e : text(x)) /\ (e = Len(t) \/ ~text(e + 1))
      long == SetToSortSeq({k \in starts : stop(k) - k + 1 >= minlen}, <)
  IN  [k \in 1..Len(long) |-> <<long[k] - 1, SubSeq(t, long[k], stop(long[k]))>>]
cact_ub_strings(files, minlen) == PerFile(LAMBDA t : strings_emit(t, minlen), files)

(* ---- base64 ---- *)
\* digits are their values, PAD is "="
PAD == 64
wrapped(ds, wrap) ==
  IF wrap <= 0 THEN ds
  ELSE Concat([k \in 1..Len(ds) |->
                 IF k % wrap = 0 \/ k = Len(ds) THEN <<ds[k], -NL>> ELSE <<ds[k]>>])
b64_encode(bytes, wrap) ==
  LET byte(i) == IF i <= Len(bytes) THEN bytes[i] ELSE 0
      group(i) ==                           \* of the three bytes from i on
        LET v == byte(i) * 65536 + byte(i + 1) * 256 + byte(i + 2)
            d(k) == (v \div 64 ^ (4 - k)) % 64
            rem == Len(bytes) - i + 1
        IN  <<d(1), d(2), IF rem = 1 THEN PAD ELSE d(3), IF rem <= 2 THEN PAD ELSE d(4)>>
  IN  wrapped(Concat(Seq0(LAMBDA k : group(3 * k + 1), (Len(bytes) + 2) \div 3)), wrap)
\* only the bits not yet written matter of the accumulator
b64_decode(ds) ==
  LET step(s, d) ==
        IF d \in {PAD, -NL} THEN s
        ELSE LET acc == s.acc * 64 + d
                 n   == s.nbits + 6
             IN  IF n < 8 THEN [s EXCEPT !.acc = acc, !.nbits = n]
                 ELSE [out |-> Append(s.out, acc \div 2 ^ (n - 8)),
                       acc |-> acc % 2 ^ (n - 8), nbits |-> n - 8]
  IN  FoldLeft(step, [out |-> <<>>, acc |-> 0, nbits |-> 0], ds).out

\* cmp: [status, the differing bytes it lists, or EOF]
cact_ub_cmp(f1, f2, o) ==
  LET p1 == Drop(f1, Min({o.skip1, Len(f1)}))
      p2 == Drop(f2, Min({o.skip2, Len(f2)}))
      nmin == Min({Len(p1), Len(p2)})
      diffs == {k \in 1..nmin : p1[k] # p2[k]}
      listed == IF diffs = {} \/ o.silent THEN <<>>
                ELSE IF o.list THEN SetToSortSeq(diffs, <) ELSE <<Min(diffs)>>
  IN  IF f1 = Missing \/ f2 = Missing THEN Answer(<<>>, 2)
      ELSE Answer(listed, IF diffs # {} \/ Len(p1) # Len(p2) THEN 1 ELSE 0)

(* ---- diff ---- *)
\* the length of the longest common subsequence of what follows i in a and j
\* in b, and the way to it
lcs(a, b) ==
  LET n == Len(a)
      m == Len(b)
      v[i \in 1..(n + 1), j \in 1..(m + 1)] ==
        IF i > n \/ j > m THEN 0
        ELSE IF a[i] = b[j] THEN v[i + 1, j + 1] + 1
        ELSE Max({v[i + 1, j], v[i, j + 1]})
  IN  v
Op(t, line) == [t |-> t, line |-> line]
diff_ops(a, b) ==
  LET v == lcs(a, b)
      walk[i \in 1..(Len(a) + 1), j \in 1..(Len(b) + 1)] ==
        IF i > Len(a) /\ j > Len(b) THEN <<>>
        ELSE IF i > Len(a) THEN <<Op("+", b[j])>> \o walk[i, j + 1]
        ELSE IF j > Len(b) THEN <<Op("-", a[i])>> \o walk[i + 1, j]
        ELSE IF a[i] = b[j] THEN <<Op(" ", a[i])>> \o walk[i + 1, j + 1]
        ELSE IF v[i + 1, j] >= v[i, j + 1] THEN <<Op("-", a[i])>> \o walk[i + 1, j]
        ELSE <<Op("+", b[j])>> \o walk[i, j + 1]
  IN  walk[1, 1]
\* lines of a and of b consumed by the first t operations
count(ops, t, c) == Cardinality({k \in 1..t : ops[k].t \in {" ", c}})
pa(ops, t) == count(ops, t, "-")
pb(ops, t) == count(ops, t, "+")

\* from..to of the maximal runs of changes, in order
runs_of(ops) ==
  LET starts == SetToSortSeq({k \in 1..Len(ops) :
                                ops[k].t # " " /\ (k = 1 \/ ops[k - 1].t = " ")}, <)
      stop(k) == Max({e \in k..Len(ops) : \A x \in k..e : ops[x].t # " "})
  IN  [k \in 1..Len(starts) |-> <<starts[k], stop(starts[k])>>]
only(ops, r, c) ==
  LET s == SelectSeq(SubSeq(ops, r[1], r[2]), LAMBDA p : p.t = c)
  IN  [k \in 1..Len(s) |-> s[k].line]
\* a command of the normal format: where it stands in a and in b, and its lines
diff_normal(ops) ==
  LET command(r) ==
        LET old  == only(ops, r, "-")
            new  == only(ops, r, "+")
            at1  == pa(ops, r[1] - 1)
            at2  == pb(ops, r[1] - 1)
        IN  [cmd |-> IF old # <<>> /\ new # <<>> THEN "c" ELSE IF old # <<>> THEN "d" ELSE "a",
             from1 |-> IF old = <<>> THEN at1 ELSE at1 + 1, to1 |-> at1 + Len(old),
             from2 |-> IF new = <<>> THEN at2 ELSE at2 + 1, to2 |-> at2 + Len(new),
             old |-> old, new |-> new]
      rs == runs_of(ops)
  IN  [k \in 1..Len(rs) |-> command(rs[k])]

\* as if the lines around a change were given to one hunk only
hunk_spans_close(ops) ==
  LET rs == runs_of(ops)
      join(hs, r) == IF hs # <<>> /\ r[1] - Last(hs)[2] - 1 <= Ctx
                     THEN [hs EXCEPT ![Len(hs)] = <<@[1], r[2]>>] ELSE Append(hs, r)
  IN  FoldLeft(join, <<>>, rs)
\* hunks: runs with at most 2 ctx equal lines between them are one, and ctx
\* equal lines go around it
hunk_spans(ops) ==
  LET rs == runs_of(ops)
      join(hs, r) == IF hs # <<>> /\ r[1] - Last(hs)[2] - 1 <= 2 * Ctx
                     THEN [hs EXCEPT ![Len(hs)] = <<@[1], r[2]>>] ELSE Append(hs, r)
  IN  FoldLeft(join, <<>>, rs)
diff_unified(ops) ==
  LET hunk(h) ==
        LET start == Max({h[1] - 1 - Ctx, 0})
            hend  == Min({h[2] + Ctx, Len(ops)})
            ac    == pa(ops, hend) - pa(ops, start)
            bc    == pb(ops, hend) - pb(ops, start)
        IN  [a |-> IF ac = 0 THEN <<0, 0>> ELSE <<pa(ops, start) + 1, ac>>,
             b |-> IF bc = 0 THEN <<0, 0>> ELSE <<pb(ops, start) + 1, bc>>,
             body |-> SubSeq(ops, start + 1, hend)]
      hs == hunk_spans(ops)
  IN  [k \in 1..Len(hs) |-> hunk(hs[k])]

\* [status, commands or hunks]: no operation for files that differ only in the
\* last newline; cells is the limit of the table
diff_file(f1, f2, o) ==
  LET a == split_lines(f1)
      b == split_lines(f2)
      ops == diff_ops(a, b)
  IN  IF f1 = Missing \/ f2 = Missing THEN Answer(<<>>, 2)
      ELSE IF f1 = f2 THEN Answer(<<>>, 0)
      ELSE IF "q" \in o.flags THEN Answer(<<>>, 1)
      ELSE IF (Len(a) + 1) * (Len(b) + 1) > o.cells THEN Answer(<<>>, 2)
      ELSE Answer(IF "u" \in o.flags THEN diff_unified(ops) ELSE diff_normal(ops), 1)

(* ---- od, hexdump ---- *)
\* rows of [address, bytes]; hexdump counts addresses from the beginning of
\* the input, od from where it starts
dump_rows(files, o, base(_)) ==
  LET acc   == Concat(files)
      start == Min({o.skip, Len(acc)})
      n     == IF o.limit >= 0 THEN Min({o.limit, Len(acc) - start}) ELSE Len(acc) - start
      part  == SubSeq(acc, start + 1, start + n)
      row(k) == <<base(start) + k * o.per, SubSeq(part, k * o.per + 1, Min({n, (k + 1) * o.per}))>>
  IN  Seq0(row, (n + o.per - 1) \div o.per)
\* a file that is missing ends both of them
Dump(files, rows) == IF Missing \in ToSet(files) THEN Answer(<<>>, 1) ELSE Answer(rows, 0)
cact_ub_od(files, o) == Dump(files, dump_rows(files, o, LAMBDA start : 0))
cact_ub_hexdump(files, o) == Dump(files, dump_rows(files, o, LAMBDA start : start))

(***************************************************************************)
(* grep (ex_grep.c): lines assembled from chunks, a plain substring, and   *)
(* the exit status over several arguments, directories among them.  An     *)
(* argument is a file of chunks, a directory of such files in the order of *)
(* their names, a device, or missing.                                      *)
(***************************************************************************)
g_low(c) == tolower(c)
g_isword(c) == isdigit(c) \/ c \in 65..90 \/ c \in 97..122 \/ c = 95

\* g_match: pat occurs in line, as a word with -w
g_match(line, pat, o) ==
  LET low(c) == IF "i" \in o THEN g_low(c) ELSE c
      at(i) == \A j \in 1..Len(pat) : low(line[i + j]) = low(pat[j])
      word(i) == /\ i > 0 => ~g_isword(line[i])
                 /\ i + Len(pat) < Len(line) => ~g_isword(line[i + Len(pat) + 1])
  IN  pat = <<>> \/ \E i \in 0..(Len(line) - Len(pat)) : at(i) /\ ("w" \in o => word(i))
hit(line, pat, o) == g_match(line, pat, o) # ("v" \in o)

\* the end of a line: what is printed of it, and whether to stop
g_line(s, pat, o) ==
  LET ln == s.ln + 1
      said == s.stop /\ "q" \notin o
  IN  IF ~hit(s.cur, pat, o) THEN [s EXCEPT !.ln = ln, !.cur = <<>>]
      ELSE [s EXCEPT !.ln = ln, !.cur = <<>>, !.cnt = @ + 1,
                     !.stop = @ \/ "q" \in o \/ "l" \in o,
                     !.out = IF "q" \in o \/ said THEN @
                             ELSE IF "l" \in o THEN Append(@, "name")
                             ELSE IF "c" \in o THEN @ ELSE Append(@, <<ln, s.cur>>)]
\* g_run_fd: chunk by chunk, up to the chunk in which it may stop.  The last
\* line may lack its newline.
g_run_fd(chunks, pat, o) ==
  LET char(s, c) ==
        IF c = NL THEN g_line(s, pat, o) ELSE [s EXCEPT !.cur = Append(@, c)]
      chunk(s, us) == IF s.stop THEN s ELSE FoldLeft(char, s, us)
      s == FoldLeft(chunk, [ln |-> 0, cur |-> <<>>, cnt |-> 0, stop |-> FALSE, out |-> <<>>],
                    chunks)
      e == IF ~s.stop /\ s.cur # <<>> THEN g_line(s, pat, o) ELSE s
  IN  Answer(e.out \o (IF "c" \in o THEN <<e.cnt>> ELSE <<>>), IF e.cnt > 0 THEN 0 ELSE 1)

\* g_walk_tree: 1 if a file matched, 2 after an error, 0 if none did
g_walk_tree(files, pat, o) ==
  LET enter(s, f) ==
        LET r == IF f = Missing THEN Answer(<<>>, 2) ELSE g_run_fd(f, pat, o)
        IN  Answer(s.out \o r.out,
                   IF r.status = 0 THEN 1 ELSE IF r.status = 2 THEN 2 ELSE s.status)
  IN  FoldLeft(enter, Answer(<<>>, 0), files)

\* 0 = matches, 1 = none, 2 = error
g_process_path(arg, pat, o) ==
  CASE arg.type = "missing" -> Answer(<<>>, 2)
    [] arg.type = "dir"     -> IF "r" \in o THEN g_walk_tree(arg.files, pat, o)
                               ELSE Answer(<<>>, 2)
    [] arg.type = "device"  -> Answer(<<>>, 0)
    [] arg.type = "file"    -> g_run_fd(arg.files[1], pat, o)

cact_ub_grep(args, pat, o) ==
  LET rs == [i \in 1..Len(args) |-> g_process_path(args[i], pat, o)]
      status(r) == \E i \in 1..Len(rs) : rs[i].status = r
  IN  Answer(Concat([i \in 1..Len(rs) |-> rs[i].out]),
             IF status(2) THEN 2 ELSE IF status(0) THEN 0 ELSE 1)
=============================================================================
