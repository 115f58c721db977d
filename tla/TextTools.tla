----------------------------- MODULE TextTools -----------------------------
(***************************************************************************)
(* ex_text.c: head, tail, wc, sort, uniq, cut, tr, tee, seq and printf;    *)
(* ex_stream.c: tac, shuf, split, fold and paste.                          *)
(* Text as the filters see it is a sequence of characters, which are their *)
(* codes, read from files that may be missing or from the standard input.  *)
(* Options come as values; a stream comes in chunks as reads return them.  *)
(***************************************************************************)
EXTENDS Integers, Sequences, FiniteSets, FiniteSetsExt, SequencesExt, TLC

CONSTANT Missing          \* a file that cannot be opened

NL == 10
TAB == 9
SP == 32
DASH == 45
BACKSLASH == 92
isspace(c) == c \in {SP, TAB, NL}
isdigit(c) == c \in 48..57
isprint(c) == c \in 32..126
tolower(c) == IF c \in 65..90 THEN c + 32 ELSE c
Concat(ss) == FoldLeft(LAMBDA a, b : a \o b, <<>>, ss)
Take(s, n) == SubSeq(s, 1, IF n < Len(s) THEN n ELSE Len(s))
Drop(s, n) == SubSeq(s, n + 1, Len(s))
Seq0(f(_), n) == [i \in 1..n |-> f(i - 1)]

\* The scan every line filter shares: lines without their newline, and a last
\* one that has none.
scan(t) ==
  FoldLeft(LAMBDA s, c : IF c = NL THEN [lines |-> Append(s.lines, s.cur), cur |-> <<>>]
                         ELSE [s EXCEPT !.cur = Append(@, c)],
           [lines |-> <<>>, cur |-> <<>>], t)
split_lines(t) ==
  LET s == scan(t) IN IF s.cur = <<>> THEN s.lines ELSE Append(s.lines, s.cur)
\* the same lines with their newlines
records(t) == Seq0(LAMBDA k : split_lines(t)[k + 1] \o
                     (IF k < Len(scan(t).lines) THEN <<NL>> ELSE <<>>), Len(split_lines(t)))
Lines(ls) == Concat([k \in 1..Len(ls) |-> Append(ls[k], NL)])

(* ---- arguments ---- *)
Answer(out, status) == [out |-> out, status |-> status]

\* one file after the other: a missing one is reported and passed over
PerFile(f(_), files) ==
  Answer(Concat([i \in 1..Len(files) |-> IF files[i] = Missing THEN <<>> ELSE f(files[i])]),
         IF \E i \in 1..Len(files) : files[i] = Missing THEN 1 ELSE 0)
\* slurp_args: all of them as one text.  A missing one counts only if nothing
\* could be read.
slurp_args(files) == Concat(SelectSeq(files, LAMBDA f : f # Missing))
Slurped(files, f(_)) ==
  IF \A i \in 1..Len(files) : files[i] = Missing THEN Answer(<<>>, 1)
  ELSE Answer(f(slurp_args(files)), 0)

\* head_stream: prints as it reads and stops reading when it has enough
head_stream(chunks, n, by_bytes) ==
  LET s0 == [out |-> <<>>, left |-> n, used |-> 0]
      char(s, c) ==
        IF s.left = 0 THEN s
        ELSE [s EXCEPT !.out = Append(@, c),
                       !.left = IF by_bytes \/ c = NL THEN @ - 1 ELSE @]
      chunk(s, us) ==
        IF s.left = 0 THEN s ELSE FoldLeft(char, [s EXCEPT !.used = @ + 1], us)
  IN  IF n <= 0 THEN s0 ELSE FoldLeft(chunk, s0, chunks)

cact_ub_head(files, n, by_bytes) ==
  PerFile(LAMBDA chunks : head_stream(chunks, n, by_bytes).out, files)

\* tail_lines: the starts of the last n lines, kept in a ring
tail_lines(t, n0) ==
  LET n == IF n0 > Len(t) THEN Len(t) ELSE n0
      ring0 == [ring |-> [k \in 0..(n - 1) |-> 0], count |-> 1]
      ended(s, i) ==
        IF t[i] # NL THEN s
        ELSE [ring |-> [s.ring EXCEPT ![s.count % n] = i], count |-> s.count + 1]
      s == FoldLeft(ended, ring0, [i \in 1..(Len(t) - 1) |-> i])
      show == IF s.count < n THEN s.count ELSE n
      from(j) == s.ring[j % n]
      to(j) == IF j + 1 < s.count THEN s.ring[(j + 1) % n] ELSE Len(t)
  IN  IF n <= 0 \/ t = <<>> THEN <<>>
      ELSE Concat(Seq0(LAMBDA k : LET j == s.count - show + k
                                  IN  SubSeq(t, from(j) + 1, to(j)), show))
tail_bytes(t, n) ==
  IF n <= 0 THEN <<>> ELSE LET take == Min({n, Len(t)}) IN Drop(t, Len(t) - take)
cact_ub_tail(files, n, by_bytes) ==
  PerFile(LAMBDA t : IF by_bytes THEN tail_bytes(t, n) ELSE tail_lines(t, n), files)

wc_count(t) ==
  LET step(s, c) ==
        [lines |-> s.lines + (IF c = NL THEN 1 ELSE 0),
         words |-> s.words + (IF ~isspace(c) /\ ~s.in_word THEN 1 ELSE 0),
         in_word |-> ~isspace(c)]
      s == FoldLeft(step, [lines |-> 0, words |-> 0, in_word |-> FALSE], t)
  IN  <<s.lines, s.words, Len(t)>>
\* a row of each file, and a total of more than one
cact_ub_wc(files) ==
  LET rows == PerFile(LAMBDA t : <<wc_count(t)>>, files)
      sum(k) == FoldLeft(LAMBDA n, row : n + row[k], 0, rows.out)
  IN  IF Len(files) <= 1 THEN rows
      ELSE Answer(Append(rows.out, <<sum(1), sum(2), sum(3)>>), rows.status)

(* ---- sort ---- *)
strtod(line) ==
  LET digits == Max({0} \cup {n \in 1..Len(line) : \A k \in 1..n : isdigit(line[k])})
  IN  FoldLeft(LAMBDA v, c : 10 * v + c - 48, 0, Take(line, digits))
compare(x, y) == IF x < y THEN -1 ELSE IF x > y THEN 1 ELSE 0
\* the first difference, or the line that ends first
strcmp(x, y, key(_)) ==
  LET diff == {k \in 1..Min({Len(x), Len(y)}) : key(x[k]) # key(y[k])}
  IN  IF diff = {} THEN compare(Len(x), Len(y))
      ELSE compare(key(x[Min(diff)]), key(y[Min(diff)]))
sort_cmp(o, x, y) ==
  LET r == IF "n" \in o THEN compare(strtod(x), strtod(y))
           ELSE IF "f" \in o THEN strcmp(x, y, tolower)
           ELSE strcmp(x, y, LAMBDA c : c)
  IN  IF "r" \in o THEN -r ELSE r
\* every order that qsort may leave: it is not a stable sort
sorted(ls, o) ==
  {s \in {[k \in 1..Len(ls) |-> ls[p[k]]] : p \in Permutations(1..Len(ls))} :
     \A k \in 2..Len(s) : sort_cmp(o, s[k - 1], s[k]) <= 0}
cact_ub_sort(files, o) ==
  LET keeps(ls, k) == "u" \in o /\ k > 1 => sort_cmp(o, ls[k - 1], ls[k]) # 0
      emit(ls) == Concat([k \in 1..Len(ls) |->
                            IF keeps(ls, k) THEN Append(ls[k], NL) ELSE <<>>])
  IN  IF \A i \in 1..Len(files) : files[i] = Missing THEN {Answer(<<>>, 1)}
      ELSE {Answer(emit(ls), 0) : ls \in sorted(split_lines(slurp_args(files)), o)}

\* uniq: runs of equal lines, each with its length
uniq_runs(t) ==
  FoldLeft(LAMBDA rs, l :
             IF rs # <<>> /\ Last(rs)[2] = l
             THEN [rs EXCEPT ![Len(rs)] = <<@[1] + 1, l>>] ELSE Append(rs, <<1, l>>),
           <<>>, split_lines(t))
cact_ub_uniq(t, o) ==
  SelectSeq(uniq_runs(t),
    LAMBDA r : /\ "d" \in o => r[1] >= 2
               /\ "u" \in o => r[1] <= 1
               /\ ~({"d", "u"} \subseteq o))

(* ---- cut ---- *)
cut_selected(list, k) == \E i \in 1..Len(list) : list[i][1] <= k /\ k <= list[i][2]
cut_fields(line, delim) ==
  LET cuts == {0, Len(line) + 1} \cup {k \in 1..Len(line) : line[k] = delim}
      s    == SetToSortSeq(cuts, <)
  IN  [k \in 1..(Len(s) - 1) |-> SubSeq(line, s[k] + 1, s[k + 1] - 1)]
cut_line(line, o) ==
  LET fs   == cut_fields(line, o.delim)
      kept == SelectSeq([k \in 1..Len(fs) |-> k], LAMBDA k : cut_selected(o.list, k))
  IN  IF o.chars
      THEN <<Concat([c \in 1..Len(line) |->
                       IF cut_selected(o.list, c) THEN <<line[c]>> ELSE <<>>])>>
      ELSE IF Len(fs) = 1 THEN IF o.suppress THEN <<>> ELSE <<line>>
      ELSE <<Concat([j \in 1..Len(kept) |->
                       (IF j = 1 THEN <<>> ELSE <<o.delim>>) \o fs[kept[j]]])>>
cact_ub_cut(files, o) ==
  Slurped(files, LAMBDA t :
    Lines(Concat([k \in 1..Len(split_lines(t)) |-> cut_line(split_lines(t)[k], o)])))

(* ---- tr ---- *)
escape(c) == CASE c = 110 -> NL [] c = 116 -> TAB [] OTHER -> c
\* ranges and escapes of a SET, up to cap characters
tr_expand(s, cap) ==
  LET from[i \in 1..(Len(s) + 3)] ==
        IF i > Len(s) THEN <<>>
        ELSE IF s[i] = BACKSLASH
        THEN IF i = Len(s) THEN <<BACKSLASH>> ELSE <<escape(s[i + 1])>> \o from[i + 2]
        ELSE IF i + 2 <= Len(s) /\ s[i + 1] = DASH
        THEN Seq0(LAMBDA k : s[i] + k, s[i + 2] - s[i] + 1) \o from[i + 3]
        ELSE <<s[i]>> \o from[i + 1]
  IN  Take(from[1], cap)
tr_char(c, map1, map2) ==
  LET idx == Min({m \in 1..Len(map1) : map1[m] = c})
  IN  IF c \notin ToSet(map1) \/ map2 = <<>> THEN c
      ELSE map2[IF idx <= Len(map2) THEN idx ELSE Len(map2)]
cact_ub_tr(t, o, set1, set2) ==
  LET map1 == tr_expand(set1, 256)
      map2 == tr_expand(set2, 256)
      sq   == IF "s" \notin o THEN {}
              ELSE IF "d" \in o \/ map2 = <<>> THEN ToSet(map1) ELSE ToSet(map2)
      put(out, c) ==
        LET d == tr_char(c, map1, map2)
        IN  IF "d" \in o /\ c \in ToSet(map1) THEN out
            ELSE LET e == IF "d" \in o THEN c ELSE d
                 IN  IF out # <<>> /\ Last(out) = e /\ e \in sq THEN out ELSE Append(out, e)
  IN  FoldLeft(put, <<>>, t)

\* tee: every chunk to the standard output and to each file that opened; a
\* write that fails, here after the first chunk, does not stop the others
cact_ub_tee(chunks, wanted, opens, broken) ==
  Answer([f \in {"stdout"} \cup opens |-> IF f \in broken THEN Take(chunks, 1) ELSE chunks],
         IF opens # wanted \/ (broken \cap opens # {} /\ Len(chunks) > 1) THEN 1 ELSE 0)

\* seq, on whole numbers
cact_ub_seq(first, step, last) ==
  IF step = 0 \/ (step > 0 /\ first > last) \/ (step < 0 /\ first < last) THEN <<>>
  ELSE LET count == IF step > 0 THEN (last - first) \div step
                    ELSE (first - last) \div (-step)
       IN  Seq0(LAMBDA k : first + step * k, count + 1)

(* ---- printf ---- *)
\* A FORMAT is a sequence of literals and conversions; a conversion takes the
\* next argument, or the empty one when they are used up.
pf_pass(fmt, args, ai) ==
  FoldLeft(LAMBDA s, p :
             IF p # "%s" THEN [s EXCEPT !.out = Append(@, p)]
             ELSE IF s.ai <= Len(args)
             THEN [out |-> Append(s.out, args[s.ai]), ai |-> s.ai + 1]
             ELSE [s EXCEPT !.out = Append(@, "")],
           [out |-> <<>>, ai |-> ai], fmt)
cact_ub_printf(fmt, args) ==
  LET pass[ai \in 1..(Len(args) + 1)] ==
        LET s == pf_pass(fmt, args, ai)
        IN  IF s.ai = ai \/ s.ai > Len(args) THEN s.out ELSE s.out \o pass[s.ai]
  IN  pass[1]

(* ---- ex_stream.c: tac and shuf ---- *)
\* Mutant of tac_emit: a last line without a newline stays without one.
tac_emit_glued(t) == Concat(Reverse(records(t)))
tac_emit(t) ==
  LET rs == Reverse(records(t))
  IN  Concat([k \in 1..Len(rs) |-> IF Last(rs[k]) = NL THEN rs[k] ELSE Append(rs[k], NL)])
cact_ub_tac(files) == PerFile(tac_emit, files)

\* shuf_emit: rand[i] is what the generator gives for place i, counted down
shuf_emit(items, count, rand) ==
  LET swap(s, i) ==
        LET j == (rand[i] % i) + 1
        IN  [s EXCEPT ![i] = s[j], ![j] = s[i]]
      n == Len(items)
      mixed == FoldLeft(swap, items, [k \in 1..(n - 1) |-> n + 1 - k])
  IN  IF count >= 0 /\ count < n THEN Take(mixed, count) ELSE mixed

(* ---- split ---- *)
\* a suffix of width letters, of which there are Letters: 26 in the code
split_suffix(width, letters, idx) ==
  [k \in 1..width |-> (idx \div letters ^ (width - k)) % letters]
split_pieces(t, o) ==
  LET by == IF o.bytes > 0 THEN [k \in 1..Len(t) |-> <<t[k]>>] ELSE records(t)
      n  == IF o.bytes > 0 THEN o.bytes ELSE IF o.lines <= 0 THEN 1 ELSE o.lines
  IN  Seq0(LAMBDA k : Concat(SubSeq(by, k * n + 1, Min({Len(by), (k + 1) * n}))),
           (Len(by) + n - 1) \div n)
\* every piece replaces what its name held; one that cannot be created ends it
cact_ub_split(t, o) ==
  LET pieces == split_pieces(t, o)
      put(s, k) ==
        IF s.status = 1 THEN s
        ELSE IF k = o.denied THEN [s EXCEPT !.status = 1]
        ELSE [s EXCEPT !.out = (split_suffix(o.width, o.letters, k - 1) :> pieces[k]) @@ @]
  IN  FoldLeft(put, Answer(<<>>, 0), [k \in 1..Len(pieces) |-> k])

(* ---- fold ---- *)
blank(c) == c \in {SP, TAB}
\* how much of a line goes into the next row
fold_chunk(rest, width, spaces) ==
  LET chunk == Min({width, Len(rest)})
      last  == {k \in 1..chunk : blank(rest[k])}
      next  == {k \in chunk..(Len(rest) - 1) : blank(rest[k + 1])}
  IN  IF ~spaces \/ chunk = Len(rest) THEN chunk
      ELSE IF last # {} /\ Max(last) # chunk THEN Max(last)
      ELSE IF next = {} THEN Len(rest) ELSE Min(next)
fold_line(line, width, spaces) ==
  LET rows[off \in 0..Len(line)] ==
        LET rest  == Drop(line, off)
            chunk == fold_chunk(rest, width, spaces)
        IN  IF rest = <<>> THEN <<>> ELSE <<Take(rest, chunk)>> \o rows[off + chunk]
  IN  IF line = <<>> THEN <<<<>>>> ELSE rows[0]
fold_emit(t, width, spaces) ==
  LET ls == split_lines(t)
  IN  Lines(Concat([k \in 1..Len(ls) |-> fold_line(ls[k], width, spaces)]))
cact_ub_fold(files, width, spaces) ==
  PerFile(LAMBDA t : fold_emit(t, IF width < 1 THEN 1 ELSE width, spaces), files)

(* ---- paste ---- *)
\* the k-th delimiter of a row, in turn; the one coded 0 is none
paste_next(delims, k) ==
  LET c == delims[((k - 1) % Len(delims)) + 1] IN IF c = 0 THEN <<>> ELSE <<c>>
\* side by side: rows as long as any input has a line, and then one more, since
\* the end is noticed only after its row is written
paste_row(ts, r, delims) ==
  Concat([f \in 1..Len(ts) |->
            (IF f = 1 THEN <<>> ELSE paste_next(delims, f - 1))
            \o (IF r <= Len(split_lines(ts[f])) THEN split_lines(ts[f])[r] ELSE <<>>)])
paste_rows(ts, delims) ==
  LET longest == Max({Len(split_lines(ts[f])) : f \in 1..Len(ts)})
  IN  [r \in 1..(longest + 1) |-> paste_row(ts, r, delims)]
\* one after the other: lines keep their newlines
paste_serial(t, delims) ==
  LET rs == records(t)
  IN  Concat([k \in 1..Len(rs) |->
                (IF k = 1 THEN <<>> ELSE paste_next(delims, k - 1)) \o rs[k]])
      \o (IF t = <<>> \/ Last(t) # NL THEN <<NL>> ELSE <<>>)
\* a missing file is an empty column, and with -s nothing at all
cact_ub_paste(files, delims, serial) ==
  LET given == SelectSeq(files, LAMBDA f : f # Missing)
      cols  == [f \in 1..Len(files) |-> IF files[f] = Missing THEN <<>> ELSE files[f]]
  IN  IF serial THEN Concat([f \in 1..Len(given) |-> paste_serial(given[f], delims)])
      ELSE Lines(paste_rows(cols, delims))
=============================================================================
