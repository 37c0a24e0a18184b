----------------------------- MODULE NativeSearch -----------------------------
(***************************************************************************)
(* The search index of the platform (NativeSearchIndex): places, streets   *)
(* and points of interest found by the words of their names and of their   *)
(* context, the nearest of them to a tap, and the crossings of two         *)
(* streets.  A word is a tuple of letters and an index a sequence of       *)
(* entries: names (a sequence of tuples of words), context (a set of words), kind, type, *)
(* rank and at.  The weight of the distance to the user is left out.       *)
(***************************************************************************)
EXTENDS NativeGraph

CONSTANTS
  SOFT_WORDS,    \* "de", "calle": they help ranking and never filter
  SingularOf,    \* of some words, the forms without their plural ending
  MaxPrefix,     \* 400: tokens a prefix is completed to
  GRID           \* cells of the index of points

ASSUME NativeSearchAssumption == GRID \in Nat \ {0} /\ MaxPrefix \in Nat

AllWords(names) == FlattenSeq(names)
WordsOf(names) == Range(AllWords(names))
Tokens(index) == UNION {WordsOf(index[i].names) : i \in DOMAIN index}
Of(index, token) == {i \in DOMAIN index : token \in WordsOf(index[i].names)}
variants(word) == {word} \cup (IF word \in DOMAIN SingularOf THEN SingularOf[word] ELSE {})

RECURSIVE Before(_, _)
Before(a, b) ==
  IF a = <<>> \/ b = <<>> THEN a = <<>> /\ b # <<>>
  ELSE Head(a) < Head(b) \/ (Head(a) = Head(b) /\ Before(Tail(a), Tail(b)))
vocabulary(index) == SetToSortSeq(Tokens(index), Before)

(* postings: the lists of the entries that have the word in a name, or one *)
(* that it begins; the vocabulary is sorted and bisected.                  *)
RECURSIVE FirstFrom(_, _, _, _)
FirstFrom(words, word, low, high) ==
  IF low >= high THEN low
  ELSE LET middle == (low + high) \div 2 IN
       IF Before(words[middle], word) THEN FirstFrom(words, word, middle + 1, high)
       ELSE FirstFrom(words, word, low, middle)
OnlyFirstMutant(index, word) ==
  LET words == vocabulary(index)
      low == FirstFrom(words, word, 1, Len(words) + 1) IN
  {words[i] : i \in {j \in low..Len(words) : j < low + 1 /\ IsPrefix(word, words[j]) /\ words[j] # word}}
Completions(index, word) ==
  LET words == vocabulary(index)
      low == FirstFrom(words, word, 1, Len(words) + 1)
      all == {i \in low..Len(words) : (\A j \in low..i : IsPrefix(word, words[j])) /\ words[i] # word} IN
  {words[i] : i \in {j \in all : Cardinality({k \in all : k <= j}) <= MaxPrefix}}
postings(index, word, prefix) ==
  {Of(index, v) : v \in variants(word) \cap Tokens(index)}
    \cup (IF prefix THEN {Of(index, w) : w \in Completions(index, word)} ELSE {})
Lists(index, word, prefix) ==
  Cardinality(variants(word) \cap Tokens(index)) + (IF prefix THEN Cardinality(Completions(index, word)) ELSE 0)
Fewest(count) ==
  LET known == {i \in DOMAIN count : count[i] > 0} IN
  {i \in known : \A j \in known : count[i] < count[j] \/ (count[i] = count[j] /\ i <= j)}

(* search: the words of the query, the last of which may be incomplete.    *)
Required(words) ==
  LET hard == SelectSeq(words, LAMBDA w : w \notin SOFT_WORDS) IN IF hard = <<>> THEN words ELSE hard
MayBegin(words, word, partialLast) == partialLast /\ word = Last(words) /\ Len(word) >= 2
matches(word, of, prefix) == of \in variants(word) \/ (prefix /\ IsPrefix(word, of))
Matching(index, i, words, partialLast) ==
  LET names == WordsOf(index[i].names)
      InName(w) == \E n \in names : matches(w, n, MayBegin(words, w, partialLast))
      InContext(w) == \E c \in index[i].context : matches(w, c, MayBegin(words, w, partialLast)) IN
  /\ \A w \in Range(Required(words)) : InName(w) \/ InContext(w)
  /\ \E w \in Range(Required(words)) : InName(w)

(* The words that are in some name, the one with the fewest lists first:   *)
(* only the entries of its lists are looked at.                            *)
Driver(index, words, partialLast) ==
  LET required == Required(words)
      drivers == Fewest([i \in DOMAIN required |-> Lists(index, required[i], MayBegin(words, required[i], partialLast))]) IN
  UNION UNION {postings(index, required[i], MayBegin(words, required[i], partialLast)) : i \in drivers}
Area(e) == e.kind \in {"admin", "place"}
(* From its word i on, the name goes on with the text. *)
Continues(name, i, text) ==
  /\ i + Len(text) - 1 <= Len(name)
  /\ \A k \in 1..Len(text) - 1 : name[i + k - 1] = text[k]
  /\ IsPrefix(Last(text), name[i + Len(text) - 1])
(* A word of the query covers the first word of the names that it matches. *)
Hit(e, words, r, partialLast) ==
  SelectSeq(AllWords(e.names), LAMBDA w : matches(r, w, MayBegin(words, r, partialLast)))
Score(index, i, words, partialLast) ==
  LET e == index[i]
      named == {r \in Range(Required(words)) : Hit(e, words, r, partialLast) # <<>>}
      covered == {Head(Hit(e, words, r, partialLast)) : r \in named}
      Meaningful(name) == SelectSeq(name, LAMBDA w : w \notin SOFT_WORDS)
      Share(name) ==
        IF Meaningful(name) = <<>> THEN 0
        ELSE (60 * Len(SelectSeq(Meaningful(name), LAMBDA w : w \in covered))) \div Len(Meaningful(name))
      exact == words \in Range(e.names) IN
  e.rank + MaxOf({Share(n) : n \in Range(e.names)}) + (IF exact THEN 20 ELSE 0)
    + (IF exact /\ Area(e) THEN e.bonus ELSE 0)
    + (IF \E n \in Range(e.names) : Continues(n, 1, words) THEN 10 ELSE 0)
    - 6 * Len(SelectSeq(Required(words), LAMBDA r : r \notin named))
SamePlace(a, b) ==
  /\ a.names[1] = b.names[1] /\ Area(a) = Area(b)
  /\ \A k \in {1, 2} : Abs(a.at[k] - b.at[k]) < (IF Area(b) THEN 20 ELSE 1)
searchKinds(index, words, partialLast, limit, kinds) ==
  LET hits == {i \in Driver(index, words, partialLast) :
                 index[i].kind \in kinds /\ Matching(index, i, words, partialLast)}
      Rank(i) == <<-Score(index, i, words, partialLast), Len(FlattenSeq(index[i].names[1])) + Len(index[i].names[1]), i>>
      Better(i, j) == Before(Rank(i), Rank(j))
      Keep(kept, i) ==
        IF Len(kept) >= limit \/ \E k \in DOMAIN kept : SamePlace(index[kept[k]], index[i]) THEN kept
        ELSE Append(kept, i) IN
  IF words = <<>> THEN <<>> ELSE FoldLeft(Keep, <<>>, SetToSortSeq(hits, Better))
search(index, words, partialLast, limit) ==
  searchKinds(index, words, partialLast, limit, {"admin", "place", "street", "poi"})
streets(index, words) == searchKinds(index, words, TRUE, 25, {"street"})

-----------------------------------------------------------------------------
(* nearest: the cells around a tap, as many as the distance takes.         *)
CellAt(at) == <<at[1] \div GRID, at[2] \div GRID>>
NoMarginMutant(meters) == meters \div GRID
Span(meters) == (meters + GRID - 1) \div GRID + 1
nearest(index, p, meters, accept) ==
  LET near == {i \in accept : /\ index[i].kind \in {"poi", "place"}
                              /\ \A k \in {1, 2} : Abs(CellAt(index[i].at)[k] - CellAt(p)[k]) <= Span(meters)
                              /\ Distance(index[i].at, p) <= meters} IN
  IF near = {} THEN 0
  ELSE CHOOSE i \in near : \A j \in near : Distance(index[i].at, p) <= Distance(index[j].at, p)

(* intersections: the nodes of the edges of one street and of another.     *)
EndsOf(g, e) == {g.edges[e].u, g.edges[e].v}
intersections(g, first, second) ==
  IF first = second THEN {}
  ELSE (UNION {EndsOf(g, e) : e \in edgesNamed(g, first)}) \cap (UNION {EndsOf(g, e) : e \in edgesNamed(g, second)})

-----------------------------------------------------------------------------
(* Properties. *)

(* What is typed so far finds every entry that has in its name a word that *)
(* begins so, up to the limits, and each place once: the entry left out    *)
(* for another of the same place is not the better one (search, postings). *)
NamesAreFound(index, hits, word, limit) ==
  Len(word) >= 2 /\ Cardinality(Tokens(index)) <= MaxPrefix => \A i \in DOMAIN index :
    (\E n \in WordsOf(index[i].names) : IsPrefix(word, n)) =>
      \/ Len(hits) = limit
      \/ i \in Range(hits)
      \/ \E k \in DOMAIN hits : /\ index[hits[k]].names[1] = index[i].names[1]
                                /\ Area(index[hits[k]]) = Area(index[i])
                                /\ Score(index, hits[k], <<word>>, TRUE) >= Score(index, i, <<word>>, TRUE)
TypingFindsNames(index, word, limit) ==
  NamesAreFound(index, search(index, <<word>>, TRUE, limit), word, limit)

(* A tap finds the nearest accepted point within the distance, though it   *)
(* is several cells away (nearest).                                        *)
TapFindsNearest(index, p, meters, accept) ==
  LET found == nearest(index, p, meters, accept)
      within == {i \in accept : index[i].kind \in {"poi", "place"} /\ Distance(index[i].at, p) <= meters} IN
  /\ found = 0 <=> within = {}
  /\ \A i \in within : Distance(index[found].at, p) <= Distance(index[i].at, p)
=============================================================================
