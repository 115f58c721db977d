------------------------------- MODULE Filters -------------------------------
(***************************************************************************)
(* One run of a text tool: what it answers for its input and its options,  *)
(* set against what its usage promises; and tail -f, which goes on reading *)
(* a file that others write.                                               *)
(***************************************************************************)
EXTENDS TextTools, FormatTools

CONSTANTS Jobs,            \* sets of [tool, files, o]: o holds the options of the tool
          FollowBuf,       \* characters a read of tail -f returns at most
          MaxGrown,        \* characters added to the followed file
          MaxTruncs        \* truncations of it

ASSUME FiltersAssumption ==
  FollowBuf \in Nat \ {0} /\ MaxGrown \in Nat /\ MaxTruncs \in Nat

VARIABLES job, jobAt, answer,
          log, shown, pos, want, base, followAt, grown, truncs
jobVars == <<job, jobAt, answer>>
followVars == <<log, shown, pos, want, base, followAt, grown, truncs>>

JobInit == (\E k \in DOMAIN Jobs : job \in Jobs[k]) /\ jobAt = "start" /\ answer = <<>>

\* qsort leaves the order of equal lines open
Results(j) ==
  LET f == j.files
      o == j.o
  IN  CASE j.tool = "head"    -> {cact_ub_head(f, o.n, o.by_bytes)}
        [] j.tool = "tail"    -> {cact_ub_tail(f, o.n, o.by_bytes)}
        [] j.tool = "wc"      -> {cact_ub_wc(f)}
        [] j.tool = "sort"    -> cact_ub_sort(f, o)
        [] j.tool = "uniq"    -> {cact_ub_uniq(f[1], o)}
        [] j.tool = "cut"     -> {cact_ub_cut(f, o)}
        [] j.tool = "tr"      -> {cact_ub_tr(f[1], o.flags, o.set1.as, o.set2.as)}
        [] j.tool = "tee"     -> {cact_ub_tee(f[1], o.wanted, o.opens, o.broken)}
        [] j.tool = "seq"     -> {cact_ub_seq(o.first, o.step, o.last)}
        [] j.tool = "printf"  -> {cact_ub_printf(o.format, o.args)}
        [] j.tool = "tac"     -> {cact_ub_tac(f)}
        [] j.tool = "shuf"    -> {shuf_emit(o.items, o.count, o.rand)}
        [] j.tool = "split"   -> {cact_ub_split(f[1], o)}
        [] j.tool = "fold"    -> {cact_ub_fold(f, o.width, o.spaces)}
        [] j.tool = "paste"   -> {cact_ub_paste(f, o.delims, o.serial)}
        [] j.tool = "nl"      -> {cact_ub_nl(f, o.all, o.start, o.incr)}
        [] j.tool = "rev"     -> {cact_ub_rev(f)}
        [] j.tool = "strings" -> {cact_ub_strings(f, o.minlen)}
        [] j.tool = "base64"  -> {b64_encode(f[1], o.wrap)}
        [] j.tool = "cmp"     -> {cact_ub_cmp(f[1], f[2], o)}
        [] j.tool = "diff"    -> {diff_file(f[1], f[2], o)}
        [] j.tool = "od"      -> {cact_ub_od(f, o)}
        [] j.tool = "hexdump" -> {cact_ub_hexdump(f, o)}
        [] j.tool = "grep"    -> {cact_ub_grep(f, o.pat, o.flags)}
RunTool ==
  jobAt = "start" /\ jobAt' = "end" /\ answer' \in Results(job) /\ UNCHANGED job

(* ---- tail -f ---- *)
\* The file is printed, then its size is asked for, then polled.  Others add
\* to it and empty it at any time; its characters are numbered.
FollowInit ==
  /\ \E n \in 0..MaxGrown : log = [k \in 1..n |-> k] /\ grown = n
  /\ truncs = 0
  /\ shown = <<>> /\ pos = 0 /\ want = 0 /\ base = 0 /\ followAt = "print"

FollowPrint ==
  /\ followAt = "print" /\ followAt' = "stat" /\ shown' = log
  /\ UNCHANGED <<log, pos, want, base, grown, truncs>>
FollowStat ==
  /\ followAt = "stat" /\ followAt' = "poll" /\ pos' = Len(log) /\ base' = Len(log)
  /\ UNCHANGED <<log, shown, want, grown, truncs>>
\* a smaller file is read again from its beginning
FollowPoll ==
  /\ followAt = "poll"
  /\ LET from == IF Len(log) < pos THEN 0 ELSE pos
     IN  /\ pos' = from /\ want' = Len(log) - from
         /\ followAt' = IF Len(log) <= from THEN "poll" ELSE "read"
  /\ UNCHANGED <<log, shown, base, grown, truncs>>
\* Mutant of FollowRead: as if a read always returned all that it was asked for.
FollowReadAll ==
  /\ followAt = "read" /\ followAt' = "poll"
  /\ shown' = shown \o SubSeq(log, pos + 1, pos + Min({want, FollowBuf, Len(log) - pos}))
  /\ pos' = pos + want /\ want' = 0
  /\ UNCHANGED <<log, base, grown, truncs>>
FollowRead ==
  /\ followAt = "read"
  /\ LET n == Min({want, FollowBuf, Len(log) - pos})
     IN  IF want = 0 \/ n <= 0
         THEN followAt' = "poll" /\ UNCHANGED <<shown, pos, want>>
         ELSE /\ shown' = shown \o SubSeq(log, pos + 1, pos + n)
              /\ pos' = pos + n /\ want' = want - n /\ UNCHANGED followAt
  /\ UNCHANGED <<log, base, grown, truncs>>
Grow ==
  /\ grown < MaxGrown /\ grown' = grown + 1 /\ log' = Append(log, grown + 1)
  /\ UNCHANGED <<shown, pos, want, base, followAt, truncs>>
Truncate ==
  /\ truncs < MaxTruncs /\ truncs' = truncs + 1 /\ log' = <<>>
  /\ UNCHANGED <<shown, pos, want, base, followAt, grown>>
tail_follow == FollowPrint \/ FollowStat \/ FollowPoll \/ FollowRead
FollowNext == tail_follow \/ Grow \/ Truncate
FollowSpec == FollowInit /\ [][FollowNext]_followVars

(***************************************************************************)
(* What the tools promise, told by positions and counts rather than by     *)
(* scanning.                                                               *)
(***************************************************************************)
Given(fs) == SelectSeq(fs, LAMBDA f : f # Missing)
Over(fs, f(_)) == Concat([i \in 1..Len(Given(fs)) |-> f(Given(fs)[i])])
Failed0(fs) == IF Missing \in ToSet(fs) THEN 1 ELSE 0
AllBut(fs) == IF Given(fs) = <<>> THEN 1 ELSE 0
Where(n, P(_)) == {k \in 1..n : P(k)}
Occurrences(s, x) == Cardinality(Where(Len(s), LAMBDA k : s[k] = x))
SameBag(s, t) == \A x \in ToSet(s) \cup ToSet(t) : Occurrences(s, x) = Occurrences(t, x)
Pick(s, ks) == LET at == SetToSortSeq(ks, <) IN [i \in 1..Len(at) |-> s[at[i]]]
Without(s, x) == SelectSeq(s, LAMBDA c : c # x)
LastOf(s, n) == IF n <= 0 THEN <<>> ELSE Drop(s, Max({0, Len(s) - n}))
Units(t, by_bytes) == IF by_bytes THEN [k \in 1..Len(t) |-> <<t[k]>>] ELSE records(t)

\* head reads no further than the chunk in which it has enough
HeadAgrees(f, o, a) ==
  LET enough(t) == IF o.by_bytes THEN Len(t) >= o.n ELSE Occurrences(t, NL) >= o.n
      thrifty(chunks) ==
        LET used == head_stream(chunks, o.n, o.by_bytes).used
        IN  used > 0 => ~enough(Concat(Take(chunks, used - 1)))
  IN  /\ a = Answer(Over(f, LAMBDA cs : Concat(Take(Units(Concat(cs), o.by_bytes), o.n))),
                    Failed0(f))
      /\ \A i \in 1..Len(f) : f[i] # Missing => thrifty(f[i])
TailAgrees(f, o, a) ==
  a = Answer(Over(f, LAMBDA t : Concat(LastOf(Units(t, o.by_bytes), o.n))), Failed0(f))
WcAgrees(f, a) ==
  LET word(t, k) == ~isspace(t[k]) /\ (k = 1 \/ isspace(t[k - 1]))
      all == Concat(Given(f))
  IN  /\ \A i \in 1..Len(Given(f)) : LET t == Given(f)[i]
            IN  a.out[i] = <<Occurrences(t, NL), Cardinality(Where(Len(t), LAMBDA k : word(t, k))),
                             Len(t)>>
      /\ Len(f) > 1 => Last(a.out)[1] = Occurrences(all, NL) /\ Last(a.out)[3] = Len(all)
      /\ a.status = Failed0(f)

\* x comes before y, or is as good as it
Lexical(x, y) ==
  \/ IsPrefix(x, y)
  \/ \E k \in 1..Min({Len(x), Len(y)}) : Take(x, k - 1) = Take(y, k - 1) /\ x[k] < y[k]
Folded(x) == [k \in 1..Len(x) |-> tolower(x[k])]
Precedes(x, y, o) ==
  LET upto(u, v) == IF "n" \in o THEN strtod(u) <= strtod(v)
                    ELSE IF "f" \in o THEN Lexical(Folded(u), Folded(v)) ELSE Lexical(u, v)
  IN  IF "r" \in o THEN upto(y, x) ELSE upto(x, y)
SortAgrees(f, o, a) ==
  LET before == split_lines(slurp_args(f))
      after  == split_lines(a.out)
      same(x, y) == Precedes(x, y, o) /\ Precedes(y, x, o)
  IN  /\ \A k \in 2..Len(after) : Precedes(after[k - 1], after[k], o)
      /\ IF "u" \notin o THEN SameBag(before, after)
         ELSE /\ \A k \in 2..Len(after) : ~same(after[k - 1], after[k])
              /\ \A x \in ToSet(before) : \E y \in ToSet(after) : same(x, y)
              /\ ToSet(after) \subseteq ToSet(before)
      /\ a.status = AllBut(f)
UniqAgrees(t, o, a) ==
  LET ls == split_lines(t)
      twin(k) == (k > 1 /\ ls[k - 1] = ls[k]) \/ (k < Len(ls) /\ ls[k + 1] = ls[k])
      stays(k) == ("d" \in o => twin(k)) /\ ("u" \in o => ~twin(k))
  IN  /\ Concat([i \in 1..Len(a) |-> [k \in 1..a[i][1] |-> a[i][2]]])
           = Pick(ls, Where(Len(ls), stays))
      /\ o = {} => \A i \in 2..Len(a) : a[i - 1][2] # a[i][2]
\* a character of a line belongs to the field after the delimiters before it
CutAgrees(f, o, a) ==
  LET wanted(k) == \E i \in 1..Len(o.list) : k \in o.list[i][1]..o.list[i][2]
      field(l, k) == 1 + Occurrences(Take(l, k - 1), o.delim)
      fields(l) == 1 + Occurrences(l, o.delim)
      ls == split_lines(slurp_args(f))
      cutting == SelectSeq(ls, LAMBDA l : o.chars \/ fields(l) > 1 \/ ~o.suppress)
      out == split_lines(a.out)
      right(l, r) ==
        IF o.chars THEN r = Pick(l, Where(Len(l), wanted))
        ELSE IF fields(l) = 1 THEN r = l
        ELSE /\ Without(r, o.delim) = Without(Pick(l, Where(Len(l),
                                        LAMBDA k : wanted(field(l, k)))), o.delim)
             /\ Occurrences(r, o.delim) =
                  Max({0, Cardinality(Where(fields(l), wanted)) - 1})
  IN  /\ Len(out) = Len(cutting) /\ \A k \in 1..Len(out) : right(cutting[k], out[k])
      /\ a.status = AllBut(f)
TrAgrees(t, o, a) ==
  LET one == o.set1.means
      two == o.set2.means
      turned(c) == IF c \notin ToSet(one) \/ two = <<>> THEN c
                   ELSE two[Min({Len(two), Min(Where(Len(one), LAMBDA k : one[k] = c))})]
      m  == IF "d" \in o.flags THEN SelectSeq(t, LAMBDA c : c \notin ToSet(one))
            ELSE [k \in 1..Len(t) |-> turned(t[k])]
      sq == IF "s" \notin o.flags THEN {}
            ELSE IF "d" \in o.flags \/ two = <<>> THEN ToSet(one) ELSE ToSet(two)
  IN  a = Pick(m, Where(Len(m), LAMBDA k : k = 1 \/ m[k] # m[k - 1] \/ m[k] \notin sq))
TeeAgrees(chunks, o, a) ==
  /\ \A t \in DOMAIN a.out : IsPrefix(a.out[t], chunks) /\ (t \notin o.broken => a.out[t] = chunks)
  /\ a.status = 0 => \A t \in o.wanted : t \in DOMAIN a.out /\ a.out[t] = chunks
SeqAgrees(o, a) ==
  LET in(x) == IF o.step > 0 THEN o.first <= x /\ x <= o.last ELSE o.last <= x /\ x <= o.first
  IN  /\ ToSet(a) = {x \in (o.first - 9)..(o.first + 9) :
                       o.step # 0 /\ in(x) /\ (x - o.first) % (IF o.step < 0 THEN -o.step ELSE o.step) = 0}
      /\ \A k \in 2..Len(a) : a[k] - a[k - 1] = o.step
\* the format as often as it takes to use up the arguments
PrintfAgrees(o, a) ==
  LET slots == Occurrences(o.format, "%s")
      times == IF slots = 0 \/ o.args = <<>> THEN 1 ELSE (Len(o.args) + slots - 1) \div slots
      part(k) == o.format[((k - 1) % Len(o.format)) + 1]
      taken(k) == Cardinality({x \in 1..k : part(x) = "%s"})
  IN  /\ Len(a) = times * Len(o.format)
      /\ \A k \in 1..Len(a) :
           a[k] = IF part(k) # "%s" THEN part(k)
                  ELSE IF taken(k) <= Len(o.args) THEN o.args[taken(k)] ELSE ""

(* ---- ex_stream.c ---- *)
TacAgrees(f, a) ==
  /\ split_lines(a.out) = Over(f, LAMBDA t : Reverse(split_lines(t)))
  /\ a.out # <<>> => Last(a.out) = NL
  /\ a.status = Failed0(f)
\* nothing twice, nothing else, and as much as was asked for
ShufAgrees(o, a) ==
  /\ \A x \in ToSet(a) : Occurrences(a, x) <= Occurrences(o.items, x)
  /\ Len(a) = IF o.count < 0 THEN Len(o.items) ELSE Min({o.count, Len(o.items)})
\* The pieces in the order of their names are the input, as long as there are
\* names: after that they replace the first ones (ex_stream.c:207).
SplitAgrees(t, o, a) ==
  LET names == SetToSortSeq(DOMAIN a.out,
                 LAMBDA x, y : \E k \in 1..o.width : Take(x, k - 1) = Take(y, k - 1) /\ x[k] < y[k])
      each == IF o.bytes > 0 THEN o.bytes ELSE Max({1, o.lines})
      size(p) == Len(Units(p, o.bytes > 0))
      told == Concat([k \in 1..Len(names) |-> a.out[names[k]]])
      need == (Len(Units(t, o.bytes > 0)) + each - 1) \div each
  IN  need <= o.letters ^ o.width =>
        /\ IF a.status = 0 THEN told = t ELSE IsPrefix(told, t)
        /\ \A k \in 1..Len(names) :
             size(a.out[names[k]]) = each \/ (k = need /\ size(a.out[names[k]]) \in 1..each)
\* A row is as wide as it may be; with -s it ends after the last blank within
\* the width.  One case is left out: a blank just at the width is taken for
\* none, and the row runs on to the next one (ex_stream.c:311).
FoldAgrees(f, o, a) ==
  LET width == Max({1, o.width})
      rows(l) == split_lines(fold_emit(Append(l, NL), width, o.spaces))
      inner(l) == Front(rows(l))
      after(l, k) == Concat(Drop(rows(l), k))
      ls == Over(f, split_lines)
      spaced(r, n) == \E k \in 1..Min({n, Len(r)}) : blank(r[k])
  IN  /\ a.status = Failed0(f)
      /\ Without(a.out, NL) = Without(Over(f, LAMBDA t : t), NL)
      /\ split_lines(a.out) = Over(f, LAMBDA t :
           Concat([k \in 1..Len(split_lines(t)) |-> rows(split_lines(t)[k])]))
      /\ \A i \in 1..Len(ls) :
           /\ ~o.spaces => \A r \in ToSet(inner(ls[i])) : Len(r) = width
           /\ ~o.spaces => Len(Last(rows(ls[i]))) <= width
           /\ o.spaces => \A r \in ToSet(inner(ls[i])) : blank(Last(r)) \/ Len(r) >= width
           /\ o.spaces => \A k \in 1..Len(inner(ls[i])) : LET r == rows(ls[i])[k] IN
                            Len(r) < width => ~spaced(after(ls[i], k), width - Len(r))
           /\ o.spaces => \A r \in ToSet(rows(ls[i])) :
                            Len(r) > width => ~spaced(r, width - 1) \/ blank(r[width])
\* Side by side: a line comes back from its column, in as many rows as the
\* longest input has lines, and then a row of delimiters alone, which nobody
\* asked for (ex_stream.c:457).  With -s nothing is added but delimiters, in
\* front of every line but the first.
PasteAgrees(f, o, a) ==
  LET cols  == [i \in 1..Len(f) |-> IF f[i] = Missing THEN <<>> ELSE split_lines(f[i])]
      rows  == split_lines(a)
      cell(r, c) == IF r <= Len(cols[c]) THEN cols[c][r] ELSE <<>>
      place(r, c) == 1 + FoldLeft(LAMBDA n, i : n + Len(cell(r, i)) + 1, 0, [i \in 1..(c - 1) |-> i])
      ended(t) == t \o (IF t = <<>> \/ Last(t) # NL THEN <<NL>> ELSE <<>>)
      delims == ToSet(o.delims)
      plain(t) == SelectSeq(t, LAMBDA c : c \notin delims)
  IN  /\ o.serial => plain(a) = plain(Over(f, ended))
      /\ o.serial /\ 0 \notin delims =>
           Len(a) = Len(Over(f, ended)) + Len(Over(f, LAMBDA t : Drop(records(t), 1)))
      /\ ~o.serial /\ 0 \notin delims =>
        /\ Len(rows) = 1 + Max({Len(cols[i]) : i \in 1..Len(f)})
        /\ ToSet(Last(rows)) \subseteq delims
        /\ \A r \in 1..Len(rows), c \in 1..Len(f) :
             SubSeq(rows[r], place(r, c), place(r, c) + Len(cell(r, c)) - 1) = cell(r, c)
        /\ \A r \in 1..Len(rows) :
             Len(rows[r]) = place(r, Len(f)) - 1 + Len(cell(r, Len(f)))

(* ---- ex_fmt.c ---- *)
NlAgrees(f, o, a) ==
  LET ls == Over(f, split_lines)
      counts == Where(Len(ls), LAMBDA k : o.all \/ ls[k] # <<>>)
  IN  /\ [k \in 1..Len(a.out) |-> a.out[k][2]] = ls
      /\ \A k \in 1..Len(a.out) :
           a.out[k][1] = IF k \notin counts THEN NoNumber
                         ELSE o.start + o.incr * Cardinality({x \in counts : x < k})
      /\ a.status = Failed0(f)
RevAgrees(f, a) ==
  /\ a.status = Failed0(f)
  /\ \A i \in 1..Len(Given(f)) :
       rev_emit(rev_emit(Given(f)[i])) = Given(f)[i]
  /\ Len(f) = 1 /\ f[1] # Missing =>
       \A k \in 1..Len(f[1]) : (a.out[k] = NL) = (f[1][k] = NL)
\* a character is shown if enough of its neighbours can be shown with it
StringsAgrees(f, o, a) ==
  LET text(t, k) == isprint(t[k]) \/ t[k] = TAB
      within(t, k) == \E x \in 1..k, y \in k..Len(t) :
                        y - x + 1 >= o.minlen /\ \A z \in x..y : text(t, z)
      told(i) == UNION {(a.out[j][1] + 1)..(a.out[j][1] + Len(a.out[j][2])) : j \in 1..Len(a.out)}
  IN  Len(f) = 1 /\ f[1] # Missing =>
        /\ told(1) = Where(Len(f[1]), LAMBDA k : within(f[1], k))
        /\ \A j \in 1..Len(a.out) : \A k \in 1..Len(a.out[j][2]) :
             a.out[j][2][k] = f[1][a.out[j][1] + k]
\* what was encoded is decoded again, wrapped or not
Base64Agrees(t, o, a) ==
  /\ b64_decode(a) = t /\ Len(Without(a, -NL)) = 4 * ((Len(t) + 2) \div 3)
  /\ o.wrap > 0 => \A k \in 1..Len(a) : (a[k] = -NL) = (k % (o.wrap + 1) = 0 \/ k = Len(a))
DumpAgrees(f, o, a, first) ==
  LET all == Drop(Concat(f), o.skip)
      part == IF o.limit < 0 THEN all ELSE Take(all, o.limit)
      from == IF first THEN Min({o.skip, Len(Concat(f))}) ELSE 0
  IN  IF Missing \in ToSet(f) THEN a = Answer(<<>>, 1)
      ELSE /\ Concat([k \in 1..Len(a.out) |-> a.out[k][2]]) = part
           /\ \A k \in 1..Len(a.out) : \A i \in 1..Len(a.out[k][2]) :
                a.out[k][2][i] = part[a.out[k][1] - from + i]
           /\ \A k \in 1..(Len(a.out) - 1) : Len(a.out[k][2]) = o.per
CmpAgrees(x, y, o, a) ==
  LET p == Drop(x, o.skip1)
      q == Drop(y, o.skip2)
      here(k) == k <= Len(p) /\ k <= Len(q) /\ p[k] # q[k]
  IN  IF Missing \in {x, y} THEN a.status = 2
      ELSE /\ a.status = 0 <=> p = q
           /\ o.list /\ ~o.silent => ToSet(a.out) = Where(Len(p), here)
           /\ a.out # <<>> => here(a.out[1]) /\ \A k \in 1..(a.out[1] - 1) : ~here(k)

(* ---- diff ---- *)
\* the commands applied to a from the last one to the first
Patched(a, cs) ==
  LET apply(s, c) == Take(s, IF c.old = <<>> THEN c.from1 ELSE c.from1 - 1)
                     \o c.new \o Drop(s, IF c.old = <<>> THEN c.from1 ELSE c.to1)
  IN  FoldLeft(apply, a, Reverse(cs))
Side(body, t) == LET s == SelectSeq(body, LAMBDA p : p.t \in {" ", t})
                 IN  [k \in 1..Len(s) |-> s[k].line]
\* a hunk where it says it stands, with nothing but equal lines outside of hunks
Fits2(h, a, b) ==
  LET at(s, r) == SubSeq(s, r[1], r[1] + r[2] - 1)
  IN  /\ at(a, h.a) = Side(h.body, "-") /\ at(b, h.b) = Side(h.body, "+")
Changes(body) == Cardinality(Where(Len(body), LAMBDA k : body[k].t # " "))
\* the length of the longest common subsequence, by trying them all
Common(a, b) ==
  Max({Cardinality(ks) : ks \in {x \in SUBSET (1..Len(a)) :
         \E ys \in SUBSET (1..Len(b)) : Pick(b, ys) = Pick(a, x)}})
(* diff tells the whole difference: its commands turn the first file into  *)
(* the second, its hunks fit both of them and keep apart, and there is no  *)
(* shorter way (ex_fmt.c:437).                                           *)
DiffApplies ==
  jobAt = "end" /\ job.tool = "diff" =>
    LET f1 == job.files[1]
        f2 == job.files[2]
        a  == split_lines(f1)
        b  == split_lines(f2)
        fewest == Len(a) + Len(b) - 2 * Common(a, b)
        told == answer.out
    IN  IF Missing \in {f1, f2} THEN answer.status = 2
        ELSE IF answer.status = 2 THEN (Len(a) + 1) * (Len(b) + 1) > job.o.cells
        ELSE /\ answer.status = 0 <=> f1 = f2
             /\ job.o.flags = {} =>
                  /\ Patched(a, told) = b
                  /\ FoldLeft(LAMBDA n, c : n + Len(c.old) + Len(c.new), 0, told) = fewest
                  /\ \A k \in 2..Len(told) : told[k].from1 > told[k - 1].to1
             /\ job.o.flags = {"u"} =>
                  /\ \A k \in 1..Len(told) : Fits2(told[k], a, b)
                  /\ \A k \in 2..Len(told) :
                       told[k].a[1] > told[k - 1].a[1] + told[k - 1].a[2]
                  /\ FoldLeft(LAMBDA n, h : n + Changes(h.body), 0, told) = fewest

(* ---- ex_grep.c ---- *)
\* Two statuses are left out: that of a walk with -r, which is turned round
\* (ex_grep.c:285), and that of a device, which counts as a match (ex_grep.c:255).
GrepAgrees(args, o, a) ==
  LET text(g) == IF g = Missing THEN <<>> ELSE Concat(g)
      files == Concat([i \in 1..Len(args) |->
                 IF args[i].type = "file" \/ (args[i].type = "dir" /\ "r" \in o.flags)
                 THEN [k \in 1..Len(args[i].files) |-> text(args[i].files[k])] ELSE <<>>])
      fold(c) == IF "i" \in o.flags THEN tolower(c) ELSE c
      found(l) == \E x \in 1..(Len(l) + 1), y \in 0..Len(l) :
                    /\ y - x + 1 = Len(o.pat)
                    /\ \A k \in x..y : fold(l[k]) = fold(o.pat[k - x + 1])
                    /\ "w" \in o.flags /\ o.pat # <<>> =>
                         (x = 1 \/ ~g_isword(l[x - 1])) /\ (y = Len(l) \/ ~g_isword(l[y + 1]))
      hits(t) == Where(Len(split_lines(t)),
                       LAMBDA k : found(split_lines(t)[k]) # ("v" \in o.flags))
      any == \E i \in 1..Len(files) : hits(files[i]) # {}
      rows(t) == LET ks == SetToSortSeq(hits(t), <)
                 IN  [i \in 1..Len(ks) |-> <<ks[i], split_lines(t)[ks[i]]>>]
      inError(arg) == arg.type = "missing" \/ (arg.type = "dir" /\ "r" \notin o.flags)
  IN  /\ (\A i \in 1..Len(args) : args[i].type = "file" \/ inError(args[i])) =>
           a.status = IF \E i \in 1..Len(args) : inError(args[i]) THEN 2
                      ELSE IF any THEN 0 ELSE 1
      /\ o.flags \cap {"q", "l", "c"} = {} => a.out = Over(files, rows)
      /\ o.flags \cap {"q", "l", "c"} = {"c"} /\ Missing \notin UNION {ToSet(args[i].files) : i \in 1..Len(args)} =>
           a.out = [k \in 1..Len(files) |-> Cardinality(hits(files[k]))]
      /\ o.flags \cap {"q", "l", "c"} = {"l"} =>
           Len(a.out) = Cardinality(Where(Len(files), LAMBDA k : hits(files[k]) # {}))
      /\ "q" \in o.flags /\ "c" \notin o.flags => a.out = <<>>

Agrees(j, a) ==
  LET f == j.files
      o == j.o
  IN  CASE j.tool = "head"    -> HeadAgrees(f, o, a)
        [] j.tool = "tail"    -> TailAgrees(f, o, a)
        [] j.tool = "wc"      -> WcAgrees(f, a)
        [] j.tool = "sort"    -> SortAgrees(f, o, a)
        [] j.tool = "uniq"    -> UniqAgrees(f[1], o, a)
        [] j.tool = "cut"     -> CutAgrees(f, o, a)
        [] j.tool = "tr"      -> TrAgrees(f[1], o, a)
        [] j.tool = "tee"     -> TeeAgrees(f[1], o, a)
        [] j.tool = "seq"     -> SeqAgrees(o, a)
        [] j.tool = "printf"  -> PrintfAgrees(o, a)
        [] j.tool = "tac"     -> TacAgrees(f, a)
        [] j.tool = "shuf"    -> ShufAgrees(o, a)
        [] j.tool = "split"   -> SplitAgrees(f[1], o, a)
        [] j.tool = "fold"    -> FoldAgrees(f, o, a)
        [] j.tool = "paste"   -> PasteAgrees(f, o, a)
        [] j.tool = "nl"      -> NlAgrees(f, o, a)
        [] j.tool = "rev"     -> RevAgrees(f, a)
        [] j.tool = "strings" -> StringsAgrees(f, o, a)
        [] j.tool = "base64"  -> Base64Agrees(f[1], o, a)
        [] j.tool = "cmp"     -> CmpAgrees(f[1], f[2], o, a)
        [] j.tool = "od"      -> DumpAgrees(f, o, a, FALSE)
        [] j.tool = "hexdump" -> DumpAgrees(f, o, a, TRUE)
        [] j.tool = "grep"    -> GrepAgrees(f, o, a)
        [] OTHER              -> TRUE

(* Followed, a file shows every character added to it once and in order,   *)
(* whatever moment it grows at; lost are at most those that came between   *)
(* the first reading and the first look at its size (ex_text.c:220), and   *)
(* after a truncation those that came and went between two polls.          *)
FollowShows ==
  /\ \A k \in 2..Len(shown) : shown[k - 1] < shown[k]
  /\ truncs = 0 /\ followAt \in {"poll", "read"} =>
       Drop(SubSeq(log, 1, pos), base) = LastOf(shown, pos - base)

(* Every text tool prints what is set down for it above, for every text,   *)
(* option and missing file among the jobs (ex_text.c, ex_stream.c,         *)
(* ex_fmt.c, ex_grep.c), and its status is the one set down, where one is. *)
(* That is what its usage promises but where the code does otherwise:      *)
(* split out of names (SplitAgrees), fold -s with a blank just at the      *)
(* width (FoldAgrees), the last row of paste and the newlines it keeps     *)
(* with -s (PasteAgrees), and the status of grep for a tree or a device    *)
(* (GrepAgrees).                                                           *)
FiltersAgree == jobAt = "end" => Agrees(job, answer)
=============================================================================
