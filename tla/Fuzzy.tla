--------------------------------- MODULE Fuzzy ---------------------------------
(***************************************************************************)
(* The matcher (src/shared/fuzzy.ts).  A character is a number: 0 is a     *)
(* boundary such as a space, n a small letter and -n its capital.  Scores   *)
(* are in units of 1/400, so that the length tie-break and the weights of   *)
(* fields, in tenths, stay whole.  Positions count from 1.                  *)
(***************************************************************************)
EXTENDS Integers, Sequences, FiniteSets, FiniteSetsExt, SequencesExt

LowerCase(s) == [i \in DOMAIN s |-> IF s[i] < 0 THEN 0 - s[i] ELSE s[i]]
IsCamelTransition(previous, current) == previous > 0 /\ current < 0
StartsWord(h, at) == at = 1 \/ h[at - 1] = 0 \/ IsCamelTransition(h[at - 1], h[at])
Span(from, n) == [i \in 1..n |-> from + i - 1]

\* runsOf: the indices at which a run of neighbouring positions begins.
RunsOf(ps) == {i \in DOMAIN ps : i = 1 \/ ps[i] # ps[i - 1] + 1}

(* A fault: no bound on how far apart two loose pieces lie. *)
AnySpan(ps, h, t) ==
  LET runs == RunsOf(ps) IN
  \/ Cardinality(runs) <= 1
  \/ Cardinality(runs) <= 4 /\ \A i \in runs : StartsWord(h, ps[i])
  \/ Cardinality(runs) <= 2

\* One run, at most four that each start a word, or two close together.
IsAcceptable(ps, h, t) ==
  LET runs == RunsOf(ps) IN
  \/ Cardinality(runs) <= 1
  \/ Cardinality(runs) <= 4 /\ \A i \in runs : StartsWord(h, ps[i])
  \/ Cardinality(runs) <= 2 /\ ps[Len(ps)] - ps[1] + 1 <= Len(t) + 3

\* alignments: the greedy one, and each letter drawn as late as it can go.
Greedy(t, low, from) ==
  LET least(c, after) == LET at == {j \in after..Len(low) : low[j] = c} IN IF at = {} THEN Len(low) + 1 ELSE Min(at)
  IN  FoldLeft(LAMBDA ps, c : Append(ps, least(c, IF ps = <<>> THEN from ELSE ps[Len(ps)] + 1)), <<>>, t)
Tightened(t, low, ps) ==
  FoldRight(LAMBDA i, late : <<Max({ps[i]} \cup {j \in ps[i]..(IF late = <<>> THEN Len(low) ELSE late[1] - 1) :
                                                    low[j] = t[i]})>> \o late,
            [i \in DOMAIN t |-> i], <<>>)
Alignments(t, low, from) ==
  LET both(greedy) == IF greedy[Len(t)] > Len(low) THEN {} ELSE {greedy, Tightened(t, low, greedy)}
  IN  both(Greedy(t, low, from))

ScorePositions(ps, h) ==
  LET start(i) == IF ps[i] = 1 THEN 14 ELSE IF h[ps[i] - 1] = 0 THEN 8
                  ELSE IF IsCamelTransition(h[ps[i] - 1], h[ps[i]]) THEN 7 ELSE 0
      run(i) == Max({r \in RunsOf(ps) : r <= i})
      joined(i) == IF i = 1 THEN 0 ELSE IF i \in RunsOf(ps) THEN 0 - (3 + (ps[i] - ps[i - 1] - 2)) ELSE 8 * (i - run(i))
      least(a, b) == IF a < b THEN a ELSE b
  IN  400 * (MapThenSumSet(LAMBDA i : 16 + start(i) + joined(i), DOMAIN ps) - least(ps[1] - 1, 12))
      - least(10 * Len(h), 1600)

Occurs(t, low, at) == at + Len(t) - 1 <= Len(low) /\ SubSeq(low, at, at + Len(t) - 1) = t

\* wordsOf: the spans between boundaries, in order.
IsWord(h, a, b) == /\ a <= b /\ \A i \in a..b : h[i] # 0
                   /\ (a = 1 \/ h[a - 1] = 0) /\ (b = Len(h) \/ h[b + 1] = 0)
Words(h) == {w \in (DOMAIN h) \X (DOMAIN h) : IsWord(h, w[1], w[2])}
TokensOf(needle) ==
  LET words == SetToSortSeq(Words(needle), LAMBDA x, y : x[1] < y[1])
  IN  [i \in DOMAIN words |-> LowerCase(SubSeq(needle, words[i][1], words[i][2]))]

(* A fault: a row is given up one edit too early. *)
GivenUpEarly(a, b, max) ==
  LET row(two, one, i) ==
        FoldLeft(LAMBDA cur, j :
                   Append(cur, Min({one[j + 1] + 1, cur[j] + 1, one[j] + (IF a[i] = b[j] THEN 0 ELSE 1)}
                                   \cup (IF i > 1 /\ j > 1 /\ a[i] = b[j - 1] /\ a[i - 1] = b[j]
                                         THEN {two[j - 1] + 1} ELSE {}))),
                 <<i>>, Span(1, Len(b)))
      next(one, now) == [two |-> one, one |-> now, over |-> Min({now[k] : k \in DOMAIN now}) >= max]
      step(s, i) == IF s.over THEN s ELSE next(s.one, row(s.two, s.one, i))
      read(last) == IF last.over THEN max + 1 ELSE last.one[Len(b) + 1]
  IN  IF Len(a) - Len(b) > max \/ Len(b) - Len(a) > max THEN max + 1
      ELSE read(FoldLeft(step, [two |-> <<>>, one |-> Span(0, Len(b) + 1), over |-> FALSE], Span(1, Len(a))))

\* boundedDistance: row by row, and given up once a whole row is past max.
BoundedDistance(a, b, max) ==
  LET row(two, one, i) ==
        FoldLeft(LAMBDA cur, j :
                   Append(cur, Min({one[j + 1] + 1, cur[j] + 1, one[j] + (IF a[i] = b[j] THEN 0 ELSE 1)}
                                   \cup (IF i > 1 /\ j > 1 /\ a[i] = b[j - 1] /\ a[i - 1] = b[j]
                                         THEN {two[j - 1] + 1} ELSE {}))),
                 <<i>>, Span(1, Len(b)))
      next(one, now) == [two |-> one, one |-> now, over |-> Min({now[k] : k \in DOMAIN now}) > max]
      step(s, i) == IF s.over THEN s ELSE next(s.one, row(s.two, s.one, i))
      read(last) == IF last.over THEN max + 1 ELSE last.one[Len(b) + 1]
  IN  IF Len(a) - Len(b) > max \/ Len(b) - Len(a) > max THEN max + 1
      ELSE read(FoldLeft(step, [two |-> <<>>, one |-> Span(0, Len(b) + 1), over |-> FALSE], Span(1, Len(a))))

\* typoMatch: the closest whole word, or start of a longer one, one edit for
\* every four letters typed.
TypoMatch(t, h, from, max) ==
  LET budget == Min({max, Len(t) \div 4})
      low == LowerCase(h)
      cut(w) == {SubSeq(low, w[1], w[2])} \cup
                (IF w[2] - w[1] + 1 > Len(t) THEN {SubSeq(low, w[1], w[1] + Len(t) - 1)} ELSE {})
      near == {c \in UNION {{<<BoundedDistance(t, x, budget), w[1], 0 - Len(x)>> : x \in cut(w)}
                             : w \in {v \in Words(h) : v[1] >= from}} : c[1] \in 1..budget}
      first(c, d) == c[1] < d[1] \/ (c[1] = d[1] /\ (c[2] < d[2] \/ (c[2] = d[2] /\ c[3] <= d[3])))
      match(c) == [ps |-> Span(c[2], 0 - c[3]), typos |-> c[1]]
      nearest(S) == IF S = {} THEN [ps |-> <<>>, typos |-> 0] ELSE match(CHOOSE c \in S : \A d \in S : first(c, d))
  IN  nearest(IF budget <= 0 THEN {} ELSE near)

MatchToken(t, h, from, mode, allowTypos, max) ==
  LET low == LowerCase(h)
      anchored == {at \in from..Len(h) : Occurs(t, low, at) /\ StartsWord(h, at)}
      fit == {ps \in Alignments(t, low, from) : IsAcceptable(ps, h, t)}
      ahead(d, p, q) == d > 0 \/ (d = 0 /\ \A i \in DOMAIN p : p[i] <= q[i])
      better(p, q) == ahead(ScorePositions(p, h) - ScorePositions(q, h), p, q)
      best(S) == IF S # {} THEN [ps |-> CHOOSE p \in S : \A q \in S : better(p, q), typos |-> 0]
                 ELSE IF allowTypos THEN TypoMatch(t, h, from, max) ELSE [ps |-> <<>>, typos |-> 0]
  IN  IF mode = "word"
      THEN [ps |-> IF anchored = {} THEN <<>> ELSE Span(Min(anchored), Len(t)), typos |-> 0]
      ELSE best(fit)

NoMatch == [ok |-> FALSE, score |-> 0, ps |-> <<>>, typos |-> 0, tier |-> 5, at |-> 0]
Prefix == 0
NotName == 3
Typo == 4
MatchGroup(tier) == IF tier <= 2 THEN 0 ELSE IF tier = NotName THEN 1 ELSE 2

\* scoreTokens: each word of the query after the one before it.
ScoreTokens(tokens, h, mode, allowTypos, max) ==
  LET from(m) == IF m.ps = <<>> THEN 1 ELSE m.ps[Len(m.ps)] + 1
      with(m, found) == [m EXCEPT !.ok = found.ps # <<>>, !.ps = @ \o found.ps, !.typos = @ + found.typos]
      step(m, t) == IF ~m.ok THEN m ELSE with(m, MatchToken(t, h, from(m), mode, allowTypos, max))
      graded(all) == IF ~all.ok THEN NoMatch
                     ELSE [all EXCEPT !.at = all.ps[1] - 1, !.score = ScorePositions(all.ps, h) - 400 * 60 * all.typos,
                             !.tier = IF all.typos > 0 THEN Typo ELSE IF all.ps[1] = 1 THEN Prefix
                                      ELSE IF StartsWord(h, all.ps[1]) THEN 1 ELSE 2]
  IN  IF tokens = <<>> THEN [NoMatch EXCEPT !.ok = TRUE, !.tier = Prefix]
      ELSE IF h = <<>> THEN NoMatch
      ELSE graded(FoldLeft(step, [NoMatch EXCEPT !.ok = TRUE], tokens))

\* matchFields: the best tier, then the best score, then the first field.
MatchFields(needle, fields, allowTypos, max) ==
  LET weighed(f, m) == IF ~m.ok THEN m
                       ELSE [m EXCEPT !.score = (@ * f.weight) \div 10,
                                      !.tier = IF f.isName \/ @ = Typo THEN @ ELSE NotName]
      match(f) == weighed(f, ScoreTokens(TokensOf(needle), f.text, f.mode, allowTypos, max))
      better(m, n) == n.ok /\ (~m.ok \/ n.tier < m.tier \/ (n.tier = m.tier /\ n.score > m.score))
  IN  FoldLeft(LAMBDA best, m : IF better(best, m) THEN m ELSE best, NoMatch, [i \in DOMAIN fields |-> match(fields[i])])

(******************************** properties ******************************)
\* The same distance, by its definition.
Distance(a, b) ==
  LET d[i \in 0..Len(a), j \in 0..Len(b)] ==
        IF i = 0 THEN j ELSE IF j = 0 THEN i
        ELSE Min({d[i - 1, j] + 1, d[i, j - 1] + 1, d[i - 1, j - 1] + (IF a[i] = b[j] THEN 0 ELSE 1)}
                 \cup (IF i > 1 /\ j > 1 /\ a[i] = b[j - 1] /\ a[i - 1] = b[j] THEN {d[i - 2, j - 2] + 1} ELSE {}))
  IN  d[Len(a), Len(b)]

(* Giving up a row early never loses a word that is within the bound.       *)
DistanceRight(a, b, max) ==
  LET agree(near, exact) == IF exact <= max THEN near = exact ELSE near > max
  IN  agree(BoundedDistance(a, b, max), Distance(a, b))

(* What is matched is there, in order and in one of the three shapes, and   *)
(* what a name begins with is always found as its beginning.                *)
MatchSound(needle, h) ==
  \A tokens \in {TokensOf(needle)}, low \in {LowerCase(h)} :
    \A m \in {ScoreTokens(tokens, h, "fuzzy", FALSE, 1)}, letters \in {FlattenSeq(tokens)} :
      /\ m.ok /\ tokens # <<>> =>
           /\ Len(m.ps) = Len(letters)
           /\ \A i \in DOMAIN m.ps : low[m.ps[i]] = letters[i] /\ (i > 1 => m.ps[i] > m.ps[i - 1])
           /\ Len(tokens) = 1 => \/ Cardinality(RunsOf(m.ps)) <= 1
                                 \/ \A i \in RunsOf(m.ps) : StartsWord(h, m.ps[i])
                                 \/ Cardinality(RunsOf(m.ps)) = 2 /\ m.ps[Len(m.ps)] - m.ps[1] <= Len(letters) + 2
      /\ Len(tokens) = 1 /\ Occurs(letters, low, 1) => m.ok /\ m.tier = Prefix
=============================================================================
