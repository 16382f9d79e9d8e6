------------------------- MODULE CampProject_proofs -------------------------
(***************************************************************************)
(* Proofs about a repository worked on with camp, for any commands,        *)
(* environments, texts, filters, number of inits, announcers and edits.    *)
(***************************************************************************)
EXTENDS CampProject, FiniteSetTheorems, SequenceTheorems, WellFoundedInduction,
        TLAPS

Phases == {"idle", "open_config", "write_config", "read_guidance",
           "open_guidance", "write_guidance"}

Typing ==
    /\ agents_file \in Seq(FileLine) \cup {None}
    /\ init \in [Inits -> [pc: Phases, options: Resolutions \cup {Unset},
                           seen: Seq(FileLine), alone: BOOLEAN]]
    /\ \A i \in Inits :
          /\ init[i].pc # "idle" => init[i].options \in Resolutions
          /\ init[i].pc = "write_guidance" => agents_file # None
    /\ {intact, complete} \subseteq BOOLEAN

\* The config file is what was asked for, if all of it was, or made of the
\* options of several inits, or no config.
ConfigInStep ==
    /\ requested \in Resolutions \cup {Unset}
    /\ requested # Unset => config_file = Written(ConfigOf(requested))
    /\ \/ config_file \in {None, Empty, Torn}
       \/ \E o \in Mixtures : config_file = Written(ConfigOf(o))

\* The config is that of a node which options o stand for.
StandsFor(config, o) ==
    /\ o \in Settled /\ Trim[o.id] # Fresh
    /\ config # Invalid /\ config = AnnouncedConfig(AnnounceSettings(o))

\* An announcer's node is one that some options stand for: its own, if known.
AnnouncersRepeat ==
    /\ announcer = [s \in Slots |-> announcer[s]]
    /\ \A s \in Running :
          \E o : /\ StandsFor(announcer[s].config, o)
                /\ announcer[s].options \in {o, Unset}

Writing(i) == init[i].pc = "write_guidance"
HasRead(i) == init[i].pc \in {"open_guidance", "write_guidance"}

\* lines hold the user's text, and at most one block.
Holds(lines) == WellMarked(lines) /\ LinesIn(lines) = text

(***************************************************************************)
(* While nothing came in between, the user's text is in AGENTS.md or, when *)
(* that is being written, in the memory of the one init that writes it.    *)
(***************************************************************************)
TextIsSomewhere ==
    intact =>
        /\ \A i, j \in Inits : Writing(i) /\ Writing(j) => i = j
        /\ \A i \in Inits : Writing(i) => agents_file = <<>>
        /\ \A i \in Inits : HasRead(i) => Holds(init[i].seen)
        /\ (\A i \in Inits : ~Writing(i)) =>
              IF agents_file = None THEN text = <<>> ELSE Holds(agents_file)

\* An init that has been alone so far, and what it has done.
LoneInit ==
    \A i \in Inits : init[i].alone =>
        /\ \A j \in Inits \ {i} : init[j].pc = "idle"
        /\ init[i].pc = "write_config" => requested = Unset
        /\ init[i].pc \in {"read_guidance", "open_guidance", "write_guidance"} =>
              requested \in {Unset, init[i].options}

HasBlock(lines, k, project) ==
    /\ k \in DOMAIN lines /\ k + 2 \in DOMAIN lines
    /\ lines[k] = Start /\ lines[k + 2] = End
    /\ lines[k + 1] = [kind |-> "guidance", words |-> project]

\* After a lone init: its block is there, and nobody at work on the files.
GuidanceStays ==
    complete =>
        /\ requested # Unset
        /\ \A i \in Inits : init[i].pc = "idle"
        /\ agents_file # None
        /\ \E k \in Nat : HasBlock(agents_file, k, requested.project)

\* The inductive invariant.
PIInv ==
    /\ Typing /\ ConfigInStep /\ AnnouncersRepeat
    /\ TextIsSomewhere /\ LoneInit /\ GuidanceStays

-----------------------------------------------------------------------------
(* Lines. *)

\* The markers are lines, and none of the user's (camp.rs:46-47).
LEMMA Markers ==
    /\ Start \in FileLine /\ End \in FileLine /\ Start # End
    /\ Start.kind = "start" /\ End.kind = "end"
    /\ \A words \in UserLines : Line(words) \in FileLine /\ Line(words).kind = "line"
BY DEF Start, End, FileLine, Line

\* The guidance is a block of three lines, of its project.
LEMMA GuidanceIsThreeLines ==
    ASSUME NEW project \in Texts
    PROVE  /\ Guidance(project) \in Seq(FileLine) /\ Len(Guidance(project)) = 3
           /\ HasBlock(Guidance(project), 1, project)
<1> DEFINE middle == [kind |-> "guidance", words |-> project]
<1>1. middle \in FileLine /\ Guidance(project) = <<Start, middle, End>>
  BY DEF FileLine, Guidance
<1> HIDE DEF middle
<1>2. QED
  BY <1>1, Markers DEF HasBlock, middle

\* What SelectInSeq finds is there, and it finds what is there.
LEMMA FirstOfFinds ==
    ASSUME NEW S, NEW lines \in Seq(S), NEW line
    PROVE  /\ FirstOf(lines, line) = 0 <=> \A k \in 1..Len(lines) : lines[k] # line
           /\ FirstOf(lines, line) # 0 =>
                 /\ FirstOf(lines, line) \in 1..Len(lines)
                 /\ lines[FirstOf(lines, line)] = line
<1> DEFINE places == {k \in 1..Len(lines) : lines[k] = line}
<1>1. FirstOf(lines, line) = IF places # {} THEN Min(places) ELSE 0
  BY DEF FirstOf, SelectInSeq
<1>2. places \subseteq Nat /\ places \subseteq 1..Len(lines)
  BY LenProperties
<1> DEFINE below == OpToRel(<, Nat)
<1>3. \A x, y \in Nat : x < y => <<x, y>> \in below
  BY DEF OpToRel
<1>4. IsWellFoundedOn(below, Nat)
  BY NatLessThanWellFounded
<1> HIDE DEF below
<1>5. ASSUME places # {}
      PROVE  Min(places) \in places
  <2> HIDE DEF places
  <2>1. PICK x \in places : \A y \in places : <<y, x>> \notin below
    BY <1>2, <1>4, <1>5, WFMin
  <2>2. \A y \in places : x <= y
    <3> SUFFICES ASSUME NEW y \in places PROVE x <= y
      OBVIOUS
    <3>1. x \in Nat /\ y \in Nat /\ ~(y < x)
      BY <1>2, <1>3, <2>1
    <3>2. QED
      BY <3>1
  <2>3. QED
    BY <2>2 DEF Min
<1>6. QED
  BY <1>1, <1>2, <1>5, LenProperties

\* The user's lines depend on nothing but themselves and where they are.
LEMMA SameLines ==
    ASSUME NEW a \in Seq(FileLine), NEW b \in Seq(FileLine),
           LinePlaces(a) = LinePlaces(b), \A k \in LinePlaces(a) : a[k] = b[k]
    PROVE  LinesIn(a) = LinesIn(b)
<1>1. a # None /\ b # None
  BY SentinelAssumption
<1>2. Restrict(a, LinePlaces(a)) = Restrict(b, LinePlaces(b))
  BY DEF Restrict
<1>3. QED
  BY <1>1, <1>2 DEF LinesIn

\* An empty file has no lines (camp.rs:1261: nor has one that is not there).
LEMMA NoLines ==
    LinesIn(<<>>) = <<>> /\ WellMarked(<<>>)
<1>1. <<>> # None /\ <<>> \in Seq(FileLine)
  BY SentinelAssumption, EmptySeq
<1>2. LinePlaces(<<>>) = {}
  BY DEF LinePlaces
<1>3. DOMAIN Restrict(<<>>, LinePlaces(<<>>)) = {} /\ Cardinality({}) = 0
  BY <1>2, FS_EmptySet DEF Restrict
<1>4. 1..Cardinality(DOMAIN Restrict(<<>>, LinePlaces(<<>>))) = {}
  BY <1>3
<1>5. LinesIn(<<>>) = <<>>
  BY <1>1, <1>4 DEF LinesIn
<1>6. DOMAIN <<>> \ LinePlaces(<<>>) = {}
  OBVIOUS
<1>7. QED
  BY <1>5, <1>6 DEF WellMarked

\* What is after m and up to n of s makes place for b.
Spliced(s, m, b, n) == SubSeq(s, 1, m) \o b \o SubSeq(s, n + 1, Len(s))

IsSpliced(r, s, m, b, n) ==
    /\ Len(r) = m + Len(b) + (Len(s) - n)
    /\ DOMAIN r = 1..(m + Len(b) + (Len(s) - n))
    /\ \A k \in 1..m : r[k] = s[k]
    /\ \A k \in 1..Len(b) : r[m + k] = b[k]
    /\ \A k \in (n + 1)..Len(s) : r[m + Len(b) + (k - n)] = s[k]

\* Each line of a spliced file is the block's or the old file's, where it was
\* or as far on as the block moves it.
LEMMA Splice ==
    ASSUME NEW S, NEW s \in Seq(S), NEW b \in Seq(S), NEW m \in Nat, NEW n \in Nat,
           m <= n, n <= Len(s)
    PROVE  /\ Spliced(s, m, b, n) \in Seq(S)
           /\ IsSpliced(Spliced(s, m, b, n), s, m, b, n)
<1> DEFINE r == Spliced(s, m, b, n)
           front == SubSeq(s, 1, m)
           back == SubSeq(s, n + 1, Len(s))
<1>1. Len(s) \in Nat /\ Len(b) \in Nat /\ \A i \in 1..Len(s) : s[i] \in S
  BY LenProperties, ElementOfSeq
<1>2. /\ front \in Seq(S) /\ Len(front) = m
      /\ \A i \in 1..m : front[i] = s[i]
  <2>1. \A i \in 1..m : s[i] \in S
    BY <1>1
  <2>2. /\ front \in Seq(S) /\ Len(front) = IF 1 <= m THEN m - 1 + 1 ELSE 0
        /\ \A i \in 1..(m - 1 + 1) : front[i] = s[1 + i - 1]
    BY <2>1, SubSeqProperties
  <2> HIDE DEF front
  <2>3. QED
    BY <2>2
<1>3. /\ back \in Seq(S) /\ Len(back) = Len(s) - n
      /\ \A i \in 1..(Len(s) - n) : back[i] = s[n + i]
  <2>1. \A i \in (n + 1)..Len(s) : s[i] \in S
    BY <1>1
  <2>2. /\ back \in Seq(S)
        /\ Len(back) = IF n + 1 <= Len(s) THEN Len(s) - (n + 1) + 1 ELSE 0
        /\ \A i \in 1..(Len(s) - (n + 1) + 1) : back[i] = s[n + 1 + i - 1]
    BY <1>1, <2>1, SubSeqProperties
  <2> HIDE DEF back
  <2>3. QED
    BY <1>1, <2>2
<1>r. r = front \o b \o back
  BY DEF Spliced
<1> HIDE DEF r, front, back
<1>4. /\ front \o b \in Seq(S) /\ Len(front \o b) = m + Len(b)
      /\ \A i \in 1..(m + Len(b)) :
            (front \o b)[i] = IF i <= m THEN front[i] ELSE b[i - m]
  BY <1>2, ConcatProperties
<1>5. /\ r \in Seq(S) /\ Len(r) = m + Len(b) + (Len(s) - n)
      /\ \A i \in 1..(m + Len(b) + (Len(s) - n)) :
            r[i] = IF i <= m + Len(b) THEN (front \o b)[i]
                                      ELSE back[i - (m + Len(b))]
  <2> DEFINE ab == front \o b
  <2>2. ab \in Seq(S) /\ Len(ab) = m + Len(b)
    BY <1>4
  <2>3. r = ab \o back
    BY <1>r
  <2> HIDE DEF ab
  <2>4. /\ ab \o back \in Seq(S) /\ Len(ab \o back) = Len(ab) + Len(back)
        /\ \A i \in 1..(Len(ab) + Len(back)) :
              (ab \o back)[i] = IF i <= Len(ab) THEN ab[i] ELSE back[i - Len(ab)]
    <3>1. ab \in Seq(S) /\ back \in Seq(S)
      BY <1>3, <2>2
    <3>2. QED
      BY <3>1, ConcatProperties, Zenon
  <2>5. QED
    BY <1>3, <2>2, <2>3, <2>4 DEF ab
<1>6. \A k \in 1..m : r[k] = s[k]
  <2> SUFFICES ASSUME NEW k \in 1..m PROVE r[k] = s[k]
    OBVIOUS
  <2>1. k \in 1..(m + Len(b) + (Len(s) - n)) /\ k <= m + Len(b)
        /\ k \in 1..(m + Len(b)) /\ k <= m
    BY <1>1
  <2>2. r[k] = (front \o b)[k]
    BY <1>5, <2>1
  <2>3. (front \o b)[k] = front[k]
    BY <1>4, <2>1
  <2>4. QED
    BY <1>2, <2>2, <2>3
<1>7. \A k \in 1..Len(b) : r[m + k] = b[k]
  <2> SUFFICES ASSUME NEW k \in 1..Len(b) PROVE r[m + k] = b[k]
    OBVIOUS
  <2>1. m + k \in 1..(m + Len(b)) /\ ~(m + k <= m) /\ m + k - m = k
    BY <1>1
  <2>2. m + k \in 1..(m + Len(b) + (Len(s) - n)) /\ m + k <= m + Len(b)
    BY <1>1, <2>1
  <2>3. r[m + k] = (front \o b)[m + k]
    BY <1>5, <2>2
  <2>4. (front \o b)[m + k] = b[m + k - m]
    BY <1>4, <2>1
  <2>5. QED
    BY <2>1, <2>3, <2>4
<1>8. \A k \in (n + 1)..Len(s) : r[m + Len(b) + (k - n)] = s[k]
  <2> SUFFICES ASSUME NEW k \in (n + 1)..Len(s)
               PROVE  r[m + Len(b) + (k - n)] = s[k]
    OBVIOUS
  <2> DEFINE i == m + Len(b) + (k - n)
  <2>1. /\ i \in 1..(m + Len(b) + (Len(s) - n)) /\ ~(i <= m + Len(b))
        /\ i - (m + Len(b)) = k - n /\ k - n \in 1..(Len(s) - n) /\ n + (k - n) = k
    BY <1>1
  <2> HIDE DEF i
  <2>2. r[i] = back[k - n]
    BY <1>5, <2>1
  <2>3. back[k - n] = s[k]
    BY <1>3, <2>1
  <2>4. QED
    BY <2>2, <2>3 DEF i
<1>9. QED
  BY <1>5, <1>6, <1>7, <1>8, LenProperties DEF r, IsSpliced

\* A line added, and one taken away.
LEMMA Inserted ==
    ASSUME NEW S, NEW s \in Seq(S), NEW p \in 1..(Len(s) + 1), NEW e \in S, NEW r,
           r = InsertAt(s, p, e)
    PROVE  /\ r \in Seq(S) /\ DOMAIN r = 1..(Len(s) + 1) /\ r[p] = e
           /\ \A k \in 1..Len(s) : r[IF k < p THEN k ELSE k + 1] = s[k]
<1> DEFINE m == p - 1
           b == <<e>>
<1>1. Len(s) \in Nat /\ m \in Nat /\ m <= m /\ m <= Len(s) /\ p \in Int
  BY LenProperties
<1>2. b \in Seq(S) /\ Len(b) = 1 /\ b[1] = e
  OBVIOUS
<1>3. r = Spliced(s, m, b, m)
  <2>1. m + 1 = p
    BY <1>1
  <2>2. QED
    BY <2>1 DEF InsertAt, Spliced
<1> HIDE DEF b
<1>4. /\ r \in Seq(S) /\ DOMAIN r = 1..(m + 1 + (Len(s) - m))
      /\ \A k \in 1..m : r[k] = s[k]
      /\ \A k \in 1..1 : r[m + k] = b[k]
      /\ \A k \in (m + 1)..Len(s) : r[m + 1 + (k - m)] = s[k]
  <2> HIDE DEF m
  <2>1. r \in Seq(S) /\ IsSpliced(r, s, m, b, m)
    BY <1>1, <1>2, <1>3, Splice
  <2>2. QED
    BY <1>2, <2>1 DEF IsSpliced
<1>5. DOMAIN r = 1..(Len(s) + 1)
  BY <1>1, <1>4
<1>6. r[p] = e
  BY <1>1, <1>2, <1>4
<1>7. ASSUME NEW k \in 1..Len(s)
      PROVE  r[IF k < p THEN k ELSE k + 1] = s[k]
  <2>1. CASE k < p
    BY <1>1, <1>4, <2>1
  <2>2. CASE ~(k < p)
    <3>1. k \in (m + 1)..Len(s) /\ m + 1 + (k - m) = k + 1
      BY <1>1, <2>2
    <3>2. QED
      BY <1>4, <2>2, <3>1
  <2>3. QED
    BY <2>1, <2>2
<1>8. QED
  BY <1>4, <1>5, <1>6, <1>7

\* Without a line the lines after it are one further up.
LEMMA Removed ==
    ASSUME NEW S, NEW s \in Seq(S), NEW p \in 1..Len(s), NEW r, r = RemoveAt(s, p)
    PROVE  /\ r \in Seq(S) /\ DOMAIN r = 1..(Len(s) - 1)
           /\ \A k \in 1..Len(s) : k # p => r[IF k < p THEN k ELSE k - 1] = s[k]
<1> DEFINE m == p - 1
           b == <<>>
           front == SubSeq(s, 1, m)
<1>1. Len(s) \in Nat /\ m \in Nat /\ p \in Nat /\ m <= p /\ p <= Len(s)
  BY LenProperties
<1>2. b \in Seq(S) /\ Len(b) = 0
  BY EmptySeq
<1>3. front \in Seq(S)
  <2>1. \A i \in 1..m : s[i] \in S
    BY <1>1, ElementOfSeq
  <2>2. QED
    BY <1>1, <2>1, SubSeqProperties
<1>4. r = Spliced(s, m, b, p)
  BY <1>3, ConcatEmptySeq DEF RemoveAt, Spliced
<1> HIDE DEF b
<1>5. /\ r \in Seq(S) /\ DOMAIN r = 1..(m + 0 + (Len(s) - p))
      /\ \A k \in 1..m : r[k] = s[k]
      /\ \A k \in (p + 1)..Len(s) : r[m + 0 + (k - p)] = s[k]
  <2> HIDE DEF m, front
  <2>1. r \in Seq(S) /\ IsSpliced(r, s, m, b, p)
    BY <1>1, <1>2, <1>4, Splice
  <2>2. QED
    BY <1>2, <2>1 DEF IsSpliced
<1>6. DOMAIN r = 1..(Len(s) - 1)
  BY <1>1, <1>5
<1>7. ASSUME NEW k \in 1..Len(s), k # p
      PROVE  r[IF k < p THEN k ELSE k - 1] = s[k]
  <2>1. CASE k < p
    BY <1>1, <1>5, <2>1
  <2>2. CASE ~(k < p)
    <3>1. k \in (p + 1)..Len(s) /\ m + 0 + (k - p) = k - 1
      BY <1>1, <1>7, <2>2
    <3>2. QED
      BY <1>5, <2>2, <3>1
  <2>3. QED
    BY <2>1, <2>2
<1>8. QED
  BY <1>5, <1>6, <1>7

-----------------------------------------------------------------------------
(* The block in AGENTS.md. *)

\* The block takes the place of another, or comes last (camp.rs:1292-1312).
LEMMA ReplaceSplices ==
    ASSUME NEW S, NEW existing \in Seq(S), NEW block \in Seq(S)
    PROVE  LET start == FirstOf(existing, Start)
               end == FirstOf(existing, End)
           IN  \E m, n \in Nat :
                 /\ m <= n /\ n <= Len(existing)
                 /\ ReplaceMarkedBlock(existing, block)
                      = Spliced(existing, m, block, n)
                 /\ IF start # 0 /\ end > start
                    THEN m = start - 1 /\ n = end
                    ELSE m = Len(existing) /\ n = Len(existing)
<1> DEFINE start == FirstOf(existing, Start)
           end == FirstOf(existing, End)
<1>1. /\ Len(existing) \in Nat
      /\ start = 0 \/ start \in 1..Len(existing)
      /\ end = 0 \/ end \in 1..Len(existing)
  BY FirstOfFinds, LenProperties
<1>2. /\ start # 0 /\ end > start =>
            ReplaceMarkedBlock(existing, block)
              = SubSeq(existing, 1, start - 1) \o block
                \o SubSeq(existing, end + 1, Len(existing))
      /\ ~(start # 0 /\ end > start) =>
            ReplaceMarkedBlock(existing, block) = existing \o block
  BY DEF ReplaceMarkedBlock
<1> HIDE DEF start, end
<1>3. CASE start # 0 /\ end > start
  <2> DEFINE m == start - 1
  <2>1. m \in Nat /\ end \in Nat /\ m <= end /\ end <= Len(existing)
    BY <1>1, <1>3
  <2>2. ReplaceMarkedBlock(existing, block) = Spliced(existing, m, block, end)
    BY <1>2, <1>3 DEF Spliced
  <2>3. QED
    BY <1>3, <2>1, <2>2 DEF start, end
<1>4. CASE ~(start # 0 /\ end > start)
  <2> DEFINE m == Len(existing)
  <2>1. SubSeq(existing, 1, m) = existing /\ SubSeq(existing, m + 1, m) = <<>>
    BY <1>1, SubSeqFull, SubSeqEmpty
  <2>2. existing \o block \o <<>> = existing \o block
    BY ConcatProperties, ConcatEmptySeq
  <2>3. ReplaceMarkedBlock(existing, block) = Spliced(existing, m, block, m)
    BY <1>2, <1>4, <2>1, <2>2 DEF Spliced
  <2>4. m \in Nat /\ m <= m
    BY <1>1
  <2>5. QED
    BY <1>4, <2>3, <2>4 DEF start, end
<1>5. QED
  BY <1>3, <1>4

\* Whatever was in the file, the block is there afterwards.
LEMMA ReplaceWrites ==
    ASSUME NEW existing \in Seq(FileLine), NEW project \in Texts
    PROVE  LET updated == ReplaceMarkedBlock(existing, Guidance(project)) IN
           /\ updated \in Seq(FileLine)
           /\ \E k \in Nat : HasBlock(updated, k, project)
<1> DEFINE block == Guidance(project)
           updated == ReplaceMarkedBlock(existing, block)
<1>1. block \in Seq(FileLine) /\ Len(block) = 3 /\ HasBlock(block, 1, project)
  BY GuidanceIsThreeLines
<1> HIDE DEF block
<1>2. PICK m, n \in Nat : /\ m <= n /\ n <= Len(existing)
                          /\ updated = Spliced(existing, m, block, n)
  BY <1>1, ReplaceSplices
<1> HIDE DEF updated
<1>3. updated \in Seq(FileLine) /\ IsSpliced(updated, existing, m, block, n)
  BY <1>1, <1>2, Splice
<1>4. HasBlock(updated, m + 1, project)
  <2>1. Len(existing) - n \in Nat
    BY <1>2, LenProperties
  <2>2. /\ DOMAIN updated = 1..(m + 3 + (Len(existing) - n))
        /\ \A k \in 1..3 : updated[m + k] = block[k]
    BY <1>1, <1>3 DEF IsSpliced
  <2>3. m + 1 \in DOMAIN updated /\ m + 3 \in DOMAIN updated /\ m + 1 + 2 = m + 3
        /\ m + 1 + 1 = m + 2
    BY <2>1, <2>2
  <2>4. /\ updated[m + 1] = block[1] /\ updated[m + 2] = block[2]
        /\ updated[m + 3] = block[3]
    BY <2>2
  <2>5. block[1] = Start /\ block[3] = End
        /\ block[2] = [kind |-> "guidance", words |-> project]
    BY <1>1 DEF HasBlock
  <2>6. QED
    BY <2>3, <2>4, <2>5 DEF HasBlock
<1>5. QED
  BY <1>3, <1>4 DEF updated, block

\* In a well marked file the markers are those of the one block.
LEMMA MarkedOnce ==
    ASSUME NEW lines \in Seq(FileLine), WellMarked(lines)
    PROVE  \/ DOMAIN lines = LinePlaces(lines)
           \/ \E k \in Nat :
                 /\ k..(k + 2) \subseteq DOMAIN lines
                 /\ LinePlaces(lines) = DOMAIN lines \ (k..(k + 2))
                 /\ lines[k] = Start /\ lines[k + 2] = End
                 /\ lines[k + 1].kind = "guidance"
<1>1. DOMAIN lines = 1..Len(lines) /\ Len(lines) \in Nat
  BY LenProperties
<1>2. LinePlaces(lines) \subseteq DOMAIN lines
  BY DEF LinePlaces
<1> DEFINE marks == DOMAIN lines \ LinePlaces(lines)
<1>3. CASE marks = {}
  BY <1>2, <1>3
<1>4. ASSUME NEW k \in marks, marks = k..(k + 2)
      PROVE  /\ k \in Nat /\ k..(k + 2) \subseteq DOMAIN lines
             /\ LinePlaces(lines) = DOMAIN lines \ (k..(k + 2))
  BY <1>1, <1>2, <1>4
<1>5. QED
  BY <1>3, <1>4 DEF WellMarked

\* Replacing the block of a well marked file leaves the user's lines.
LEMMA ReplaceKeepsText ==
    ASSUME NEW existing \in Seq(FileLine), NEW project \in Texts,
           WellMarked(existing)
    PROVE  LET updated == ReplaceMarkedBlock(existing, Guidance(project)) IN
           WellMarked(updated) /\ LinesIn(updated) = LinesIn(existing)
<1> DEFINE block == Guidance(project)
           updated == ReplaceMarkedBlock(existing, block)
           start == FirstOf(existing, Start)
           end == FirstOf(existing, End)
           len == Len(existing)
<1>1. /\ block \in Seq(FileLine) /\ Len(block) = 3
      /\ block[1] = Start /\ block[3] = End /\ block[2].kind = "guidance"
  <2>1. 1 + 1 = 2 /\ 1 + 2 = 3
    OBVIOUS
  <2>2. block \in Seq(FileLine) /\ Len(block) = 3 /\ HasBlock(block, 1, project)
    BY GuidanceIsThreeLines
  <2> HIDE DEF block
  <2>3. block[2] = [kind |-> "guidance", words |-> project]
    BY <2>1, <2>2 DEF HasBlock
  <2>4. QED
    BY <2>1, <2>2, <2>3 DEF HasBlock
<1> HIDE DEF block
<1>2. PICK m, n \in Nat : /\ m <= n /\ n <= Len(existing)
                          /\ updated = Spliced(existing, m, block, n)
                          /\ IF start # 0 /\ end > start
                             THEN m = start - 1 /\ n = end
                             ELSE m = Len(existing) /\ n = Len(existing)
  BY <1>1, ReplaceSplices
<1>3. updated \in Seq(FileLine) /\ IsSpliced(updated, existing, m, block, n)
  BY <1>1, <1>2, Splice
<1>4. /\ len \in Nat /\ DOMAIN existing = 1..len
      /\ start = 0 <=> \A k \in 1..len : existing[k] # Start
      /\ start # 0 => start \in 1..len /\ existing[start] = Start
      /\ end = 0 <=> \A k \in 1..len : existing[k] # End
      /\ end # 0 => end \in 1..len /\ existing[end] = End
  BY FirstOfFinds, LenProperties
<1>5. /\ DOMAIN updated = 1..(m + 3 + (len - n))
      /\ \A k \in 1..m : updated[k] = existing[k]
      /\ \A k \in 1..3 : updated[m + k] = block[k]
      /\ \A k \in (n + 1)..len : updated[m + 3 + (k - n)] = existing[k]
  BY <1>1, <1>3 DEF IsSpliced
<1> HIDE DEF updated, start, end, len
<1>6. SUFFICES /\ n = m \/ n = m + 3
               /\ LinePlaces(existing) = (1..m) \cup ((n + 1)..len)
               /\ n = m => n = len
  <2> DEFINE lines == (1..m) \cup ((n + 1)..len)
             marks == (m + 1)..(m + 3)
  <2>1. m \in Nat /\ len \in Nat /\ n <= len
    BY <1>2, <1>4 DEF len
  <2>2. /\ DOMAIN updated = lines \cup marks /\ lines \cap marks = {}
        /\ \A k \in lines : updated[k] = existing[k]
    <3>1. CASE n = m /\ n = len
      BY <1>5, <2>1, <3>1
    <3>2. CASE n = m + 3
      <4>1. \A k \in (n + 1)..len : m + 3 + (k - n) = k
        BY <2>1, <3>2
      <4>2. m + 3 + (len - n) = len
        BY <2>1, <3>2
      <4>3. QED
        BY <1>5, <2>1, <3>2, <4>1, <4>2
    <3>3. QED
      BY <1>6, <3>1, <3>2
  <2>3. /\ updated[m + 1] = Start /\ updated[m + 3] = End
        /\ updated[m + 2].kind = "guidance"
    BY <1>1, <1>5
  <2>4. LinePlaces(updated) = lines
    <3>1. \A k \in lines : updated[k].kind = "line"
      BY <1>6, <2>2 DEF LinePlaces
    <3>2. \A k \in marks : updated[k].kind # "line"
      <4>1. \A k \in marks : k = m + 1 \/ k = m + 2 \/ k = m + 3
        BY <2>1
      <4>2. QED
        BY <2>3, <4>1, Markers
    <3>3. QED
      BY <2>2, <3>1, <3>2 DEF LinePlaces
  <2>5. LinesIn(updated) = LinesIn(existing)
    BY <1>3, <1>6, <2>2, <2>4, SameLines
  <2>6. WellMarked(updated)
    <3>1. DOMAIN updated \ LinePlaces(updated) = marks
      BY <2>2, <2>4
    <3> DEFINE k == m + 1
    <3>2. k \in marks /\ k + 2 = m + 3 /\ k + 1 = m + 2 /\ marks = k..(k + 2)
      BY <2>1
    <3> HIDE DEF k, marks
    <3>3. updated[k] = Start /\ updated[k + 2] = End /\ updated[k + 1].kind = "guidance"
      BY <2>3, <3>2 DEF k
    <3>4. QED
      BY <3>1, <3>2, <3>3 DEF WellMarked
  <2>7. QED
    BY <2>5, <2>6 DEF updated, block
<1>7. CASE DOMAIN existing = LinePlaces(existing)
  <2>1. start = 0
    BY <1>4, <1>7, Markers DEF LinePlaces
  <2>2. QED
    BY <1>2, <1>4, <1>7, <2>1 DEF len
<1>8. ASSUME NEW k \in Nat, k..(k + 2) \subseteq DOMAIN existing,
             LinePlaces(existing) = DOMAIN existing \ (k..(k + 2)),
             existing[k] = Start, existing[k + 2] = End,
             existing[k + 1].kind = "guidance"
      PROVE  m = k - 1 /\ n = k + 2
  <2>1. {k, k + 1, k + 2} \subseteq 1..len
    BY <1>4, <1>8
  <2>2. \A j \in 1..len : existing[j] \in {Start, End} => j \in {k, k + 1, k + 2}
    <3> SUFFICES ASSUME NEW j \in 1..len, existing[j] \in {Start, End},
                        j \notin LinePlaces(existing)
                 PROVE  j \in {k, k + 1, k + 2}
      BY Markers DEF LinePlaces
    <3>1. QED
      BY <1>4, <1>8
  <2>3. existing[k + 1] \notin {Start, End} /\ Start # End
    BY <1>8, Markers
  <2>4. start = k
    BY <1>4, <1>8, <2>1, <2>2, <2>3
  <2>5. end = k + 2
    BY <1>4, <1>8, <2>1, <2>2, <2>3
  <2>6. QED
    BY <1>2, <1>4, <2>1, <2>4, <2>5
<1>9. CASE \E k \in Nat : /\ k..(k + 2) \subseteq DOMAIN existing
                          /\ LinePlaces(existing) = DOMAIN existing \ (k..(k + 2))
                          /\ existing[k] = Start /\ existing[k + 2] = End
                          /\ existing[k + 1].kind = "guidance"
  <2>1. PICK k \in Nat : /\ k..(k + 2) \subseteq DOMAIN existing
                         /\ LinePlaces(existing) = DOMAIN existing \ (k..(k + 2))
                         /\ m = k - 1 /\ n = k + 2
    BY <1>8, <1>9
  <2>2. k \in 1..len /\ k + 2 \in 1..len
    BY <1>4, <2>1
  <2>3. LinePlaces(existing) = (1..m) \cup ((n + 1)..len)
    BY <1>4, <2>1, <2>2
  <2>4. n = m + 3
    BY <2>1, <2>2
  <2>5. QED
    BY <2>3, <2>4, <2>2, <2>1
<1>10. QED
  BY <1>7, <1>9, MarkedOnce

-----------------------------------------------------------------------------
(* Options. *)

Fields == AgentFields \cup DiscoveryFields

\* An option is a text where init and announce have given it one.
LEMMA OptionsAreFunctions ==
    ASSUME NEW r \in Settled
    PROVE  /\ r = [f \in Fields |-> r[f]] /\ DOMAIN r = Fields
           /\ {r.id, r.role, r.project, r.branch, r.service_type} \subseteq Texts
           /\ r.status \in Statuses
           /\ r.metadata \in Seq([key: Texts, value: Texts])
           /\ r.shared_secret \in Texts \cup {Unset}
           /\ r.shared_secret_accept \in Seq(Texts)
           /\ r.shared_secret_mode \in {"sign-only", "sign-and-verify"}
<1>1. DOMAIN r = Fields
  BY DEF Settled, OptionsOf, Fields, AgentFields, DiscoveryFields
<1>2. r = [f \in Fields |-> r[f]]
  BY <1>1 DEF Settled, OptionsOf
<1>3. QED
  BY <1>1, <1>2 DEF Settled, OptionsOf

\* camp init settles every option, from the repository if need be (camp.rs:506-522).
LEMMA ResolvedIsSettled ==
    ASSUME NEW command \in Commands, NEW env \in Environments
    PROVE  /\ Resolved(command, env) \in Settled
           /\ Trim[Resolved(command, env).id] # Fresh
<1>1. /\ command \in Options
      /\ env \in [package: Texts \cup {Unset}, directory: Texts \cup {Unset},
                  branch: Texts \cup {Unset}]
      /\ {"agent", "default", "main"} \subseteq Texts
      /\ Unset \notin Texts
      /\ command.id = Unset \/ Trim[command.id] # Fresh
  BY ProjectAssumption, ConfigTextAssumption, FreshAssumption
<1> DEFINE project == OrElse(command.project, InferProject(env))
           branch == OrElse(command.branch, InferBranch(env))
           id == OrElse(command.id, Slug[project, branch])
           role == OrElse(command.role, "agent")
           port == OrElse(command.port, 7000)
<1>2. /\ command.project \in Texts \cup {Unset} /\ command.branch \in Texts \cup {Unset}
      /\ command.id \in Texts \cup {Unset} /\ command.role \in Texts \cup {Unset}
      /\ command.port \in Nat \cup {Unset}
  BY <1>1 DEF Options, OptionsOf
<1>3. InferProject(env) \in Texts
  BY <1>1 DEF InferProject, IsNamed
<1>4. project \in Texts /\ branch \in Texts
  BY <1>1, <1>2, <1>3 DEF OrElse, InferBranch
<1>5. role \in Texts /\ port \in Nat
  BY <1>1, <1>2 DEF OrElse
<1>6. Slug[project, branch] \in Texts /\ Trim[Slug[project, branch]] # Fresh
  <2>1. <<project, branch>> \in Texts \X Texts
    BY <1>4
  <2>2. <<project, branch>> \in DOMAIN Slug /\ Slug[<<project, branch>>] \in Texts
    BY <2>1, ProjectAssumption
  <2>3. QED
    BY <2>2, FreshAssumption
<1>7. id \in Texts /\ Trim[id] # Fresh
  BY <1>1, <1>2, <1>6 DEF OrElse
<1>8. Resolved(command, env)
        = [command EXCEPT !.project = project, !.branch = branch, !.id = id,
                          !.role = role, !.port = port]
  BY DEF Resolved
<1> HIDE DEF project, branch, id, role, port
<1>9. Resolved(command, env) \in Settled
  <2> DEFINE named == [command EXCEPT !.project = project, !.branch = branch,
                                      !.port = port]
  <2>1. /\ named \in Options /\ named.project \in Texts
        /\ named.branch \in Texts /\ named.port \in Nat
    BY <1>1, <1>4, <1>5 DEF Options, OptionsOf
  <2>2. Resolved(command, env) = [named EXCEPT !.id = id, !.role = role]
    BY <1>1, <1>8 DEF Options, OptionsOf
  <2> HIDE DEF named
  <2>3. QED
    BY <1>5, <1>7, <2>1, <2>2 DEF Options, Settled, OptionsOf
<1>10. Resolved(command, env).id = id
  BY <1>1, <1>8 DEF Options, OptionsOf
<1>11. QED
  BY <1>7, <1>9, <1>10

\* So do clap's defaults (camp.rs:202-218).
LEMMA AnnouncedIsSettled ==
    ASSUME NEW command \in Commands, command.id # Unset, command.port # Unset
    PROVE  /\ AnnounceOptions(command) \in Settled
           /\ Trim[AnnounceOptions(command).id] # Fresh
<1>1. /\ command \in Options /\ Unset \notin Texts
      /\ {"agent", "default", "unknown"} \subseteq Texts
      /\ Trim[command.id] # Fresh
  BY ProjectAssumption, ConfigTextAssumption, FreshAssumption
<1> DEFINE role == OrElse(command.role, "agent")
           project == OrElse(command.project, "default")
           branch == OrElse(command.branch, "unknown")
<1>2. /\ role \in Texts /\ project \in Texts /\ branch \in Texts
      /\ command.id \in Texts /\ command.port \in Nat
  BY <1>1 DEF Options, OptionsOf, OrElse
<1>3. AnnounceOptions(command)
        = [command EXCEPT !.role = role, !.project = project, !.branch = branch]
  BY DEF AnnounceOptions
<1> HIDE DEF role, project, branch
<1>4. AnnounceOptions(command) \in Settled
  BY <1>1, <1>2, <1>3 DEF Options, Settled, OptionsOf
<1>5. AnnounceOptions(command).id = command.id
  BY <1>1, <1>3 DEF Options, OptionsOf
<1>6. QED
  BY <1>1, <1>4, <1>5

\* Mixed options take their interfaces from others (camp.rs:414-417).
LEMMA MixedIs ==
    ASSUME NEW o \in Settled, NEW e \in Settled, NEW d \in Settled
    PROVE  /\ Mixed(o, e, d) \in Settled /\ Mixed(o, e, d).id = o.id
           /\ Mixed(o, e, d).enable_interface = e.enable_interface
           /\ Mixed(o, e, d).disable_interface = d.disable_interface
           /\ Mixed(o, o, o) = o
BY DEF Mixed, Settled, OptionsOf

\* Whatever inits are asked for, the config they leave can be read again.
LEMMA MixturesAreSettled ==
    /\ Resolutions \subseteq Mixtures
    /\ Mixtures \subseteq Settled /\ Unset \notin Mixtures
    /\ \A o \in Mixtures : /\ Trim[o.id] # Fresh
                           /\ ConfigOf(o) # Invalid
                           /\ Written(ConfigOf(o)) \notin {None, Empty, Torn}
<1>1. \A o \in Resolutions : o \in Settled /\ Trim[o.id] # Fresh
  BY ResolvedIsSettled DEF Resolutions
<1>2. Resolutions \subseteq Mixtures
  <2> SUFFICES ASSUME NEW o \in Resolutions PROVE o \in Mixtures
    OBVIOUS
  <2>1. Mixed(o, o, o) = o
    BY <1>1, MixedIs
  <2>2. QED
    BY <2>1 DEF Mixtures
<1>3. \A o \in Mixtures : o \in Settled /\ Trim[o.id] # Fresh
  <2> SUFFICES ASSUME NEW m \in Mixtures PROVE m \in Settled /\ Trim[m.id] # Fresh
    OBVIOUS
  <2>1. PICK o \in Resolutions, e \in Resolutions, d \in Resolutions :
           m = Mixed(o, e, d)
    BY DEF Mixtures
  <2>2. QED
    BY <1>1, <2>1, MixedIs
<1>4. QED
  BY <1>2, <1>3, SentinelAssumption

\* Options of which some interfaces are another mixture's are a mixture.
LEMMA MixingMixes ==
    ASSUME NEW o \in Resolutions, NEW e \in Mixtures, NEW d \in Mixtures
    PROVE  Mixed(o, e, d) \in Mixtures
<1>1. PICK enabling \in Resolutions : e.enable_interface = enabling.enable_interface
  <2>1. PICK p \in Resolutions, q \in Resolutions, r \in Resolutions : e = Mixed(p, q, r)
    BY DEF Mixtures
  <2>2. QED
    BY <2>1, MixedIs, MixturesAreSettled
<1>2. PICK disabling \in Resolutions : d.disable_interface = disabling.disable_interface
  <2>1. PICK p \in Resolutions, q \in Resolutions, r \in Resolutions : d = Mixed(p, q, r)
    BY DEF Mixtures
  <2>2. QED
    BY <2>1, MixedIs, MixturesAreSettled
<1>3. Mixed(o, e, d) = Mixed(o, enabling, disabling)
  BY <1>1, <1>2 DEF Mixed
<1>4. QED
  BY <1>3 DEF Mixtures

-----------------------------------------------------------------------------
(* The config file and the settings made of it. *)

\* A set's sequence holds each of its elements once.
LEMMA SetToSeqOnce ==
    ASSUME NEW S, IsFiniteSet(S)
    PROVE  /\ SetToSeq(S) \in Seq(S)
           /\ \A x \in S : \E i \in DOMAIN SetToSeq(S) : SetToSeq(S)[i] = x
           /\ \A i, j \in DOMAIN SetToSeq(S) :
                 SetToSeq(S)[i] = SetToSeq(S)[j] => i = j
<1> DEFINE n == Cardinality(S)
           seq == SetToSeq(S)
<1>1. n \in Nat /\ ExistsBijection(1..n, S)
  BY FS_CardinalityType
<1>2. PICK f \in [1..n -> S] : IsInjective(f)
  BY <1>1 DEF ExistsBijection, Bijection, Injection, IsInjective
<1>3. seq \in [1..n -> S] /\ IsInjective(seq)
  BY <1>2 DEF SetToSeq
<1> HIDE DEF seq
<1>4. IsFiniteSet(1..n) /\ Cardinality(1..n) = n
  BY <1>1, FS_Interval
<1>5. seq \in Injection(1..n, S)
  BY <1>3 DEF Injection
<1> HIDE DEF n
<1>6. seq \in Surjection(1..n, S)
  <2>1. Cardinality(1..n) = Cardinality(S)
    BY <1>4 DEF n
  <2>2. QED
    BY <1>5, <2>1, FS_Injection
<1>7. /\ seq \in Seq(S)
      /\ \A x \in S : \E i \in DOMAIN seq : seq[i] = x
      /\ \A i, j \in DOMAIN seq : seq[i] = seq[j] => i = j
  BY <1>1, <1>3, <1>6, SeqDef DEF Surjection, IsInjective, n
<1>8. QED
  BY <1>7 DEF seq

\* The keys of a sequence of pairs are finitely many.
LEMMA KeysAreFinite ==
    ASSUME NEW S, NEW pairs \in Seq(S)
    PROVE  IsFiniteSet(KeysIn(pairs))
<1>1. Len(pairs) \in Nat /\ DOMAIN pairs = 1..Len(pairs)
  BY LenProperties
<1>2. IsFiniteSet(DOMAIN pairs)
  BY <1>1, FS_Interval
<1> DEFINE f == [i \in DOMAIN pairs |-> pairs[i].key]
<1>3. f \in Surjection(DOMAIN pairs, KeysIn(pairs))
  BY DEF Surjection, KeysIn
<1>4. QED
  BY <1>2, <1>3, FS_Surjection

\* A map written out as pairs and collected again is the map.
LEMMA CollectPairs ==
    ASSUME NEW map, map = [k \in DOMAIN map |-> map[k]], IsFiniteSet(DOMAIN map)
    PROVE  Collect(Pairs(map)) = map
<1> DEFINE S == {[key |-> k, value |-> map[k]] : k \in DOMAIN map}
           pairs == SetToSeq(S)
<1>1. IsFiniteSet(S)
  <2> DEFINE f == [k \in DOMAIN map |-> [key |-> k, value |-> map[k]]]
  <2>1. f \in Surjection(DOMAIN map, S)
    BY DEF Surjection
  <2>2. QED
    BY <2>1, FS_Surjection
<1>2. /\ pairs \in Seq(S)
      /\ \A x \in S : \E i \in DOMAIN pairs : pairs[i] = x
      /\ \A i, j \in DOMAIN pairs : pairs[i] = pairs[j] => i = j
  BY <1>1, SetToSeqOnce
<1>3. DOMAIN pairs \subseteq Nat /\ \A i \in DOMAIN pairs : pairs[i] \in S
  <2> HIDE DEF S, pairs
  <2>1. Len(pairs) \in Nat /\ DOMAIN pairs = 1..Len(pairs)
    BY <1>2, LenProperties
  <2>2. QED
    BY <1>2, <2>1, ElementOfSeq
<1>4. Pairs(map) = pairs
  BY DEF Pairs
<1> HIDE DEF pairs
<1>5. ASSUME NEW k \in DOMAIN map
      PROVE  \E i \in DOMAIN pairs : /\ PlacesOf(pairs, k) = {i}
                                     /\ pairs[i] = [key |-> k, value |-> map[k]]
  <2>1. PICK i \in DOMAIN pairs : pairs[i] = [key |-> k, value |-> map[k]]
    BY <1>2
  <2>2. \A j \in DOMAIN pairs : pairs[j].key = k => pairs[j] = pairs[i]
    BY <1>3, <2>1
  <2>3. PlacesOf(pairs, k) = {i}
    BY <1>2, <2>1, <2>2 DEF PlacesOf
  <2>4. QED
    BY <2>1, <2>3
<1>6. KeysIn(pairs) = DOMAIN map
  <2>1. \A i \in DOMAIN pairs : pairs[i].key \in DOMAIN map
    BY <1>3
  <2>2. \A k \in DOMAIN map : \E i \in DOMAIN pairs : pairs[i].key = k
    BY <1>5
  <2>3. QED
    BY <2>1, <2>2 DEF KeysIn
<1>7. ASSUME NEW k \in DOMAIN map
      PROVE  pairs[Max(PlacesOf(pairs, k))].value = map[k]
  <2>1. PICK i \in DOMAIN pairs : /\ PlacesOf(pairs, k) = {i}
                                  /\ pairs[i] = [key |-> k, value |-> map[k]]
    BY <1>5
  <2>2. Max({i}) = i
    BY <1>3 DEF Max
  <2>3. QED
    BY <2>1, <2>2
<1>8. QED
  BY <1>4, <1>6, <1>7 DEF Collect

\* What is stored is what is read back, empty lists and maps left out
\* (camp.rs:388-418,1230-1246).
LEMMA TomlReadsBack ==
    ASSUME NEW fields, NEW table, table = [f \in fields |-> table[f]]
    PROVE  FromToml(ToToml(table), fields) = table
<1> DEFINE kept == {g \in DOMAIN table :
                       g \in DOMAIN SkippedIf => table[g] # SkippedIf[g]}
           stored == [f \in kept |-> table[f]]
<1>1. ToToml(table) = stored
  BY DEF ToToml
<1>2. DOMAIN table = fields
  OBVIOUS
<1>3. \A f \in fields : f \notin kept => table[f] = SkippedIf[f]
  BY <1>2
<1>4. \A f \in fields : f \in kept => f \in DOMAIN stored /\ stored[f] = table[f]
  BY <1>2
<1>5. DOMAIN stored = kept
  OBVIOUS
<1> HIDE DEF kept, stored
<1>6. \A f \in fields :
         (IF f \in DOMAIN stored THEN stored[f] ELSE SkippedIf[f]) = table[f]
  BY <1>3, <1>4, <1>5
<1>7. QED
  BY <1>1, <1>6 DEF FromToml

\* So is a whole config file, of any options inits leave there (camp.rs:1230-1246).
LEMMA ConfigReadsBack ==
    ASSUME NEW r \in Mixtures
    PROVE  ReadCampConfig(Written(ConfigOf(r))) = ConfigOf(r)
<1> DEFINE agent == [f \in AgentFields |->
                       IF f = "metadata" THEN Collect(r[f]) ELSE r[f]]
           discovery == [f \in DiscoveryFields |-> r[f]]
<1>1. ConfigOf(r) = [agent |-> agent, discovery |-> discovery]
  BY DEF ConfigOf
<1>2. /\ agent = [f \in AgentFields |-> agent[f]]
      /\ discovery = [f \in DiscoveryFields |-> discovery[f]]
  OBVIOUS
<1> HIDE DEF agent, discovery
<1>3. /\ FromToml(ToToml(agent), AgentFields) = agent
      /\ FromToml(ToToml(discovery), DiscoveryFields) = discovery
  BY <1>2, TomlReadsBack
<1>4. Written(ConfigOf(r)) = [agent |-> ToToml(agent),
                              discovery |-> ToToml(discovery)]
  BY <1>1 DEF Written
<1>5. QED
  BY <1>1, <1>3, <1>4, MixturesAreSettled DEF ReadCampConfig

-----------------------------------------------------------------------------
(* From settings to a node. *)

BuilderFields ==
    {"agent_id", "role", "project", "branch", "port", "mdns_port",
     "service_type", "status", "heartbeat", "ttl", "event_capacity",
     "metadata", "capabilities", "advertise", "enabled", "disabled", "auth"}

\* A builder that has all it requires, and no secret yet.
IsBuilder(b) ==
    /\ b = [f \in BuilderFields |-> b[f]]
    /\ b.auth = Unset
    /\ \A f \in RequiredFields : b[f] \in Texts

\* The secrets in settings or in discovery options.
HasSecrets(d) ==
    /\ d.shared_secret \in Texts \cup {Unset}
    /\ d.shared_secret_accept \in Seq(Texts)
    /\ d.shared_secret_mode \in {"sign-only", "sign-and-verify"}
AskedAuth(d) ==
    IF d.shared_secret = Unset THEN Unset
    ELSE [signing |-> d.shared_secret, accepted |-> d.shared_secret_accept,
          mode |-> d.shared_secret_mode]
NodeAuth(d) ==
    IF d.shared_secret = Unset THEN Unset
    ELSE [signing |-> Trim[d.shared_secret],
          accepted |-> TrimmedSet(d.shared_secret_accept)
                       \cup {Trim[d.shared_secret]},
          mode |-> d.shared_secret_mode]

\* What a node is configured as, of what its builder was told.
IsConfigOf(c, b, d) ==
    /\ \A f \in RequiredFields : c[f] = Trim[b[f]] /\ Trim[b[f]] # Empty
    /\ c.mdns_port = b.mdns_port /\ c.status = b.status
    /\ c.advertise = b.advertise
    /\ c.auth = NodeAuth(d)
    /\ d.shared_secret # Unset => c.auth # Unset

\* Secrets and interfaces leave the rest of a builder alone (camp.rs:944-973).
LEMMA SecuredKeeps ==
    ASSUME NEW b, IsBuilder(b), NEW d, HasSecrets(d), Secured(b, d) # Invalid
    PROVE  /\ Secured(b, d) = [f \in BuilderFields |-> Secured(b, d)[f]]
           /\ Secured(b, d).auth = AskedAuth(d)
           /\ \A f \in BuilderFields \ {"auth", "enabled", "disabled"} :
                 Secured(b, d)[f] = b[f]
<1> DEFINE signed == ApplySharedSecret(b, d.shared_secret,
                                       d.shared_secret_accept,
                                       d.shared_secret_mode)
           result == Secured(b, d)
<1>1. /\ signed = [f \in BuilderFields |-> signed[f]]
      /\ signed.auth = AskedAuth(d)
      /\ \A f \in BuilderFields \ {"auth"} : signed[f] = b[f]
  <2>1. CASE d.shared_secret = Unset
    BY <2>1 DEF ApplySharedSecret, AskedAuth, IsBuilder
  <2>2. CASE d.shared_secret # Unset
    <3> DEFINE auth == [signing |-> d.shared_secret,
                        accepted |-> d.shared_secret_accept,
                        mode |-> d.shared_secret_mode]
    <3>1. signed = [b EXCEPT !["auth"] = auth]
      BY <2>2 DEF ApplySharedSecret, WithSharedSecret, With
    <3>2. AskedAuth(d) = auth
      BY <2>2 DEF AskedAuth
    <3> HIDE DEF signed, auth
    <3>3. b = [f \in BuilderFields |-> b[f]] /\ "auth" \in BuilderFields
      BY DEF IsBuilder, BuilderFields
    <3> HIDE DEF BuilderFields
    <3>4. QED
      BY <3>1, <3>2, <3>3
  <2>3. QED
    BY <2>1, <2>2
<1> HIDE DEF signed
<1>2. \E on, off :
         result = [[signed EXCEPT !.enabled = on] EXCEPT !.disabled = off]
  BY DEF Secured, ApplyInterfaces, EnableInterfaces, DisableInterfaces, signed
<1>3. PICK on, off :
         result = [[signed EXCEPT !.enabled = on] EXCEPT !.disabled = off]
  BY <1>2
<1> HIDE DEF result
<1>4. /\ result = [f \in BuilderFields |-> result[f]]
      /\ \A f \in BuilderFields \ {"enabled", "disabled"} : result[f] = signed[f]
  BY <1>1, <1>3
<1>5. "auth" \in BuilderFields
  BY DEF BuilderFields
<1>6. QED
  BY <1>1, <1>4, <1>5 DEF result

\* build_config and ZeroConfConfig::new, when they reject nothing
\* (builder.rs:306-345, config.rs:209-301).
LEMMA BuiltIsConfig ==
    ASSUME NEW b, IsBuilder(b), NEW d, HasSecrets(d),
           Built(Secured(b, d)) # Invalid
    PROVE  IsConfigOf(Built(Secured(b, d)), b, d)
<1> DEFINE s == Secured(b, d)
           auth == IF s.auth = Unset THEN Unset ELSE SharedSecretAuth(s.auth)
           capabilities == Canonical(s.capabilities)
           told == [s EXCEPT !.agent_id = s.agent_id, !.auth = auth,
                             !.capabilities = capabilities]
           c == Built(s)
<1>1. s # Invalid /\ c = BuildConfig(s) /\ c # Invalid
  BY DEF Built
<1>2. /\ s = [f \in BuilderFields |-> s[f]]
      /\ s.auth = AskedAuth(d)
      /\ \A f \in BuilderFields \ {"auth", "enabled", "disabled"} : s[f] = b[f]
  BY <1>1, SecuredKeeps
<1>3. s.agent_id # Unset /\ \A f \in RequiredFields : s[f] \in Texts /\ s[f] = b[f]
  BY <1>2, ConfigTextAssumption DEF IsBuilder, BuilderFields, RequiredFields
<1>4. auth # Invalid /\ c = NewConfig(told)
  BY <1>1, <1>3 DEF BuildConfig
<1>5. auth = NodeAuth(d) /\ (d.shared_secret # Unset => auth # Unset)
  <2> HIDE DEF s
  <2>1. CASE d.shared_secret = Unset
    BY <1>2, <2>1 DEF AskedAuth, NodeAuth
  <2>2. CASE d.shared_secret # Unset
    <3> DEFINE asked == [signing |-> d.shared_secret,
                         accepted |-> d.shared_secret_accept,
                         mode |-> d.shared_secret_mode]
               accepted == TrimmedSet(d.shared_secret_accept)
                           \cup {Trim[d.shared_secret]}
    <3>1. s.auth = asked
      BY <1>2, <2>2 DEF AskedAuth
    <3>2. asked \in Auth(Seq(Texts))
      BY <2>2 DEF Auth, HasSecrets
    <3>3. s.auth # Unset
      BY <3>1, <3>2, AuthAssumption
    <3>4. auth = SharedSecretAuth(asked)
      BY <3>1, <3>3
    <3>5. auth = NodeAuth(d) /\ Empty \notin accepted
      BY <1>4, <2>2, <3>4 DEF SharedSecretAuth, NodeAuth
    <3>6. accepted \subseteq Texts \cup {Empty}
      <4>1. \A i \in DOMAIN d.shared_secret_accept :
               d.shared_secret_accept[i] \in Texts
        BY LenProperties, ElementOfSeq DEF HasSecrets
      <4>2. QED
        BY <2>2, <4>1, ConfigTextAssumption DEF HasSecrets, TrimmedSet
    <3>7. Trim[d.shared_secret] \in Texts /\ accepted \subseteq Texts
      BY <3>5, <3>6
    <3>8. NodeAuth(d) \in Auth(SUBSET Texts)
      BY <2>2, <3>7 DEF NodeAuth, Auth, HasSecrets
    <3>9. QED
      BY <3>5, <3>8, AuthAssumption
  <2>3. QED
    BY <2>1, <2>2
<1> HIDE DEF s, auth, capabilities
<1>6. /\ DOMAIN told = BuilderFields /\ told.auth = auth
      /\ \A f \in BuilderFields \ {"auth", "capabilities"} : told[f] = s[f]
  BY <1>2 DEF BuilderFields
<1> HIDE DEF told
<1> DEFINE trimmed == [f \in DOMAIN told |-> IF f \in RequiredFields
                                            THEN Trim[told[f]] ELSE told[f]]
<1>7. c = trimmed /\ \A f \in RequiredFields : trimmed[f] # Empty
  BY <1>1, <1>4 DEF NewConfig
<1> HIDE DEF c
<1>8. \A f \in RequiredFields : trimmed[f] = Trim[b[f]]
  BY <1>3, <1>6 DEF RequiredFields, BuilderFields
<1>9. \A f \in {"mdns_port", "status", "advertise"} : trimmed[f] = b[f]
  BY <1>2, <1>6 DEF RequiredFields, BuilderFields
<1>10. trimmed.auth = auth
  BY <1>6 DEF RequiredFields, BuilderFields
<1> HIDE DEF trimmed
<1>11. IsConfigOf(c, b, d)
  BY <1>5, <1>7, <1>8, <1>9, <1>10 DEF IsConfigOf
<1>12. QED
  BY <1>11 DEF c, s

\* A builder has no secret and advertises, unless told otherwise (builder.rs:44-87).
LEMMA Defaults ==
    /\ DefaultBuilder = [f \in BuilderFields |-> DefaultBuilder[f]]
    /\ DefaultBuilder.advertise = TRUE /\ DefaultBuilder.auth = Unset
BY DEF DefaultBuilder, BuilderFields

IsTrimmed(c) ==
    \A f \in RequiredFields : c[f] \in Texts /\ Trim[c[f]] = c[f]

\* A node of camp announce has its options' names, trimmed, and is heard of
\* (camp.rs:565-586,735-766).
LEMMA AnnouncedIsConfig ==
    ASSUME NEW o \in Settled, NEW c, c = AnnouncedConfig(AnnounceSettings(o)),
           c # Invalid
    PROVE  /\ c.agent_id = Trim[o.id] /\ c.project = Trim[o.project]
           /\ c.service_type = Trim[o.service_type]
           /\ c.mdns_port = o.mdns_port /\ c.status \in Statuses
           /\ c.advertise = TRUE /\ c.auth = NodeAuth(o)
           /\ o.shared_secret # Unset => c.auth # Unset
           /\ IsTrimmed(c)
<1> DEFINE s == AnnounceSettings(o)
           b == [DefaultBuilder EXCEPT
                    !.agent_id = s.id, !.role = s.role, !.project = s.project,
                    !.branch = s.branch, !.port = s.port,
                    !.mdns_port = s.mdns_port, !.service_type = s.service_type,
                    !.status = s.status, !.heartbeat = s.heartbeat_ms,
                    !.ttl = s.ttl_ms, !.capabilities = s.capabilities]
           m == ApplyMetadata(b, s.metadata)
<1>1. c = Built(Secured(m, s))
  BY DEF AnnouncedConfig
<1>2. s = o
  BY OptionsAreFunctions DEF AnnounceSettings, Fields
<1>3. /\ b = [f \in BuilderFields |-> b[f]]
      /\ b.agent_id = s.id /\ b.role = s.role /\ b.project = s.project
      /\ b.branch = s.branch /\ b.service_type = s.service_type
      /\ b.mdns_port = s.mdns_port /\ b.status = s.status
      /\ b.advertise = TRUE /\ b.auth = Unset
  BY Defaults DEF BuilderFields
<1> HIDE DEF b
<1>4. /\ m = [f \in BuilderFields |-> m[f]]
      /\ \A f \in BuilderFields \ {"metadata"} : m[f] = b[f]
  BY <1>3 DEF ApplyMetadata, WithMetadata
<1> HIDE DEF m, s
<1>5. /\ m.agent_id = o.id /\ m.role = o.role /\ m.project = o.project
      /\ m.branch = o.branch /\ m.service_type = o.service_type
      /\ m.mdns_port = o.mdns_port /\ m.status = o.status
      /\ m.advertise = TRUE /\ m.auth = Unset
  BY <1>2, <1>3, <1>4 DEF BuilderFields
<1>6. IsBuilder(m) /\ HasSecrets(s)
  BY <1>2, <1>4, <1>5, OptionsAreFunctions
  DEF IsBuilder, HasSecrets, RequiredFields
<1>7. IsConfigOf(c, m, s)
  BY <1>1, <1>6, BuiltIsConfig
<1>8. \A f \in RequiredFields :
         /\ c[f] = Trim[m[f]] /\ c[f] \in Texts
         /\ Trim[c[f]] = c[f]
  BY <1>6, <1>7, ConfigTextAssumption DEF IsConfigOf, IsBuilder
<1>9. QED
  BY <1>2, <1>5, <1>7, <1>8, OptionsAreFunctions
  DEF IsConfigOf, RequiredFields, IsTrimmed

\* The config file stands for the options it was written from, but for the
\* pairs of metadata that a later one of the same key replaces.
LEMMA UpIsAnnounce ==
    ASSUME NEW r \in Mixtures
    PROVE  AnnouncedConfig(FromConfigFile(ConfigOf(r)))
             = AnnouncedConfig(AnnounceSettings(r))
<1> DEFINE s == FromConfigFile(ConfigOf(r))
           t == AnnounceSettings(r)
<1>1. r \in Settled
  BY MixturesAreSettled
<1>2. t = r
  BY <1>1, OptionsAreFunctions DEF AnnounceSettings, Fields
<1>3. \A f \in Fields \ {"metadata"} : s[f] = t[f]
  BY <1>2 DEF FromConfigFile, ConfigOf, Fields, AgentFields, DiscoveryFields
<1>4. s.metadata = Pairs(Collect(r.metadata))
  BY DEF FromConfigFile, ConfigOf, AgentFields, DiscoveryFields
<1>5. Collect(s.metadata) = Collect(t.metadata)
  <2>1. r.metadata \in Seq([key: Texts, value: Texts])
    BY <1>1, OptionsAreFunctions
  <2>2. /\ DOMAIN Collect(r.metadata) = KeysIn(r.metadata)
        /\ Collect(r.metadata)
             = [k \in KeysIn(r.metadata) |-> Collect(r.metadata)[k]]
    BY DEF Collect
  <2>3. Collect(Pairs(Collect(r.metadata))) = Collect(r.metadata)
    BY <2>1, <2>2, KeysAreFinite, CollectPairs
  <2>4. QED
    BY <1>2, <1>4, <2>3
<1> HIDE DEF s, t
<1>6. /\ s.id = t.id /\ s.role = t.role /\ s.project = t.project
      /\ s.branch = t.branch /\ s.port = t.port /\ s.mdns_port = t.mdns_port
      /\ s.service_type = t.service_type /\ s.status = t.status
      /\ s.heartbeat_ms = t.heartbeat_ms /\ s.ttl_ms = t.ttl_ms
      /\ s.capabilities = t.capabilities
      /\ s.shared_secret = t.shared_secret
      /\ s.shared_secret_accept = t.shared_secret_accept
      /\ s.shared_secret_mode = t.shared_secret_mode
      /\ s.enable_interface = t.enable_interface
      /\ s.disable_interface = t.disable_interface
  BY <1>3 DEF Fields, AgentFields, DiscoveryFields
<1>7. AnnouncedConfig(s) = AnnouncedConfig(t)
  BY <1>5, <1>6 DEF AnnouncedConfig, ApplyMetadata, Secured
<1>8. QED
  BY <1>7 DEF s, t

\* The discovery options in a config file, and the observer made of them
\* (camp.rs:701-728,795-820).
LEMMA ObserverIsConfig ==
    ASSUME NEW r \in Resolutions, NEW c,
           c = ObserverConfig(ResolveDiscovery(Written(ConfigOf(r)))),
           c # Invalid
    PROVE  /\ c.agent_id = Fresh /\ c.service_type = Trim[r.service_type]
           /\ c.mdns_port = r.mdns_port /\ c.auth = NodeAuth(r)
<1> DEFINE d == ConfigOf(r).discovery
           quiet == DiscoverOnly(DefaultBuilder)
           port == 1
           heartbeat == 200
           ttl == 2000
           b == [quiet EXCEPT
                    !.agent_id = Fresh, !.role = "observer",
                    !.project = "observer", !.branch = "watch", !.port = port,
                    !.mdns_port = d.mdns_port, !.service_type = d.service_type,
                    !.heartbeat = heartbeat, !.ttl = ttl]
<1>1. ResolveDiscovery(Written(ConfigOf(r))) = d
  BY ConfigReadsBack, MixturesAreSettled DEF ResolveDiscovery
<1>2. c = Built(Secured(b, d))
  BY <1>1 DEF ObserverConfig
<1>3. /\ d.mdns_port = r.mdns_port /\ d.service_type = r.service_type
      /\ d.shared_secret = r.shared_secret
      /\ d.shared_secret_accept = r.shared_secret_accept
      /\ d.shared_secret_mode = r.shared_secret_mode
  BY DEF ConfigOf, DiscoveryFields
<1> HIDE DEF d, port, heartbeat, ttl
<1>4. /\ b = [f \in BuilderFields |-> b[f]]
      /\ b.agent_id = Fresh /\ b.role = "observer" /\ b.project = "observer"
      /\ b.branch = "watch" /\ b.service_type = r.service_type
      /\ b.mdns_port = r.mdns_port /\ b.auth = Unset
  <2>1. quiet = [f \in BuilderFields |-> quiet[f]] /\ quiet.auth = Unset
    BY Defaults DEF BuilderFields, DiscoverOnly, With
  <2> HIDE DEF quiet
  <2>2. b = [f \in BuilderFields |-> b[f]]
    BY <2>1
  <2>3. /\ b.agent_id = Fresh /\ b.role = "observer" /\ b.project = "observer"
        /\ b.branch = "watch"
    BY <2>1 DEF BuilderFields
  <2>4. /\ b.service_type = d.service_type /\ b.mdns_port = d.mdns_port
        /\ b.auth = quiet.auth
    BY <2>1 DEF BuilderFields
  <2> HIDE DEF b
  <2>5. QED
    BY <1>3, <2>1, <2>2, <2>3, <2>4
<1> HIDE DEF b
<1>5. r \in Settled
  BY MixturesAreSettled
<1>6. IsBuilder(b) /\ HasSecrets(d)
  BY <1>3, <1>4, <1>5, OptionsAreFunctions, ProjectAssumption, ConfigTextAssumption
  DEF IsBuilder, HasSecrets, RequiredFields
<1>7. IsConfigOf(c, b, d)
  BY <1>2, <1>6, BuiltIsConfig
<1>8. NodeAuth(d) = NodeAuth(r)
  BY <1>3 DEF NodeAuth
<1>9. QED
  BY <1>4, <1>7, <1>8, ConfigTextAssumption DEF IsConfigOf, RequiredFields

-----------------------------------------------------------------------------
(* The invariant: at the start, and after each action of camp init. *)

\* A file of one user's line has whole marks: none.
LEMMA OneLine ==
    ASSUME NEW words \in UserLines
    PROVE  /\ <<Line(words)>> \in Seq(FileLine)
           /\ WellMarked(<<Line(words)>>)
<1>1. <<Line(words)>> \in Seq(FileLine)
  BY Markers
<1>2. \A k \in DOMAIN <<Line(words)>> : <<Line(words)>>[k].kind = "line"
  BY Markers
<1>3. DOMAIN <<Line(words)>> \ LinePlaces(<<Line(words)>>) = {}
  BY <1>2 DEF LinePlaces
<1>4. QED
  BY <1>1, <1>3 DEF WellMarked

\* It holds before camp init is ever run.
LEMMA ProjectStarts ==
    ASSUME ProjectInit
    PROVE  PIInv
<1>1. agents_file \in Seq(FileLine) \cup {None}
  BY OneLine DEF ProjectInit
<1>2. <<>> \in Seq(FileLine)
  BY EmptySeq
<1>3. /\ \A i \in Inits : init[i] = IdleInit
      /\ init \in [Inits -> {IdleInit}]
  BY DEF ProjectInit
<1>4. \A i \in Inits : init[i].pc = "idle" /\ init[i].alone = FALSE
  BY <1>3 DEF IdleInit
<1>5. Typing
  BY <1>1, <1>2, <1>3, <1>4 DEF Typing, ProjectInit, IdleInit, Phases
<1>6. ConfigInStep
  BY DEF ConfigInStep, ProjectInit
<1>7. AnnouncersRepeat
  BY DEF AnnouncersRepeat, ProjectInit, Running
<1>8. TextIsSomewhere
  <2>1. agents_file = None => text = <<>>
    BY DEF ProjectInit, LinesIn
  <2>2. agents_file # None => Holds(agents_file)
    BY OneLine DEF ProjectInit, Holds
  <2>3. QED
    BY <1>4, <2>1, <2>2 DEF TextIsSomewhere, Writing, HasRead
<1>9. LoneInit
  BY <1>4 DEF LoneInit
<1>10. GuidanceStays
  BY DEF GuidanceStays, ProjectInit
<1>11. QED
  BY <1>5, <1>6, <1>7, <1>8, <1>9, <1>10 DEF PIInv

\* What an announcer is does not depend on the files.
LEMMA AnnouncersStay ==
    ASSUME AnnouncersRepeat, announcer' = announcer
    PROVE  AnnouncersRepeat'
BY DEF AnnouncersRepeat, Running

\* A step of one camp init is one of its program counter alone.
Moves(i, to) ==
    /\ init'[i].pc = to
    /\ \A j \in Inits \ {i} : init'[j].pc = init[j].pc
    /\ \A j \in Inits : /\ init'[j].options = init[j].options
                        /\ init'[j].seen = init[j].seen
                        /\ init'[j].alone = init[j].alone
    /\ init' \in [Inits -> [pc: Phases, options: Resolutions \cup {Unset},
                            seen: Seq(FileLine), alone: BOOLEAN]]

\* A Step does that.
LEMMA StepMoves ==
    ASSUME Typing, NEW i \in Inits, NEW from, NEW to \in Phases, Step(i, from, to)
    PROVE  Moves(i, to)
<1>1. init' = [init EXCEPT ![i].pc = to]
  BY DEF Step
<1>2. init \in [Inits -> [pc: Phases, options: Resolutions \cup {Unset},
                          seen: Seq(FileLine), alone: BOOLEAN]]
  BY DEF Typing
<1>3. init' \in [Inits -> [pc: Phases, options: Resolutions \cup {Unset},
                           seen: Seq(FileLine), alone: BOOLEAN]]
  BY <1>1, <1>2
<1>4. QED
  BY <1>1, <1>2, <1>3 DEF Moves

\* camp init settles its options, and is alone only if no other is at work
\* (camp.rs:496-522).
LEMMA BeginKeeps ==
    ASSUME PIInv, NEW i \in Inits, NEW command \in Commands,
           NEW force \in BOOLEAN, NEW env \in Environments,
           BeginInit(i, command, force, env)
    PROVE  PIInv'
<1> DEFINE rec == [pc: Phases, options: Resolutions \cup {Unset},
                   seen: Seq(FileLine), alone: BOOLEAN]
           r == Resolved(command, env)
           lone == \A k \in Inits : init[k].pc = "idle"
<1>1. Typing /\ init \in [Inits -> rec] /\ init[i].pc = "idle"
  BY DEF PIInv, Typing, BeginInit
<1>2. r \in Resolutions
  BY DEF Resolutions
<1> HIDE DEF r, lone
<1>3. init' = [j \in Inits |->
          IF j = i THEN [pc |-> "open_config", options |-> r, seen |-> <<>>,
                         alone |-> lone]
                   ELSE [init[j] EXCEPT !.alone = FALSE]]
  BY DEF BeginInit, r, lone
<1>4. /\ init'[i].pc = "open_config" /\ init'[i].options = r
      /\ init'[i].alone = lone
      /\ \A j \in Inits \ {i} :
            /\ init'[j].pc = init[j].pc /\ init'[j].options = init[j].options
            /\ init'[j].seen = init[j].seen /\ init'[j].alone = FALSE
  BY <1>1, <1>3
<1>5. init' \in [Inits -> rec]
  <2>1. <<>> \in Seq(FileLine) /\ lone \in BOOLEAN
    BY EmptySeq DEF lone
  <2>2. [pc |-> "open_config", options |-> r, seen |-> <<>>, alone |-> lone] \in rec
    BY <1>2, <2>1 DEF Phases
  <2>3. \A j \in Inits : [init[j] EXCEPT !.alone = FALSE] \in rec
    BY <1>1
  <2> HIDE DEF rec
  <2>4. QED
    BY <1>3, <2>2, <2>3
<1>6. /\ UNCHANGED <<config_file, agents_file, announcer, requested, text, intact>>
      /\ complete' = FALSE
  BY DEF BeginInit, files
<1>7. Typing'
  BY <1>1, <1>2, <1>4, <1>5, <1>6 DEF Typing
<1>8. ConfigInStep'
  BY <1>6 DEF PIInv, ConfigInStep
<1>9. AnnouncersRepeat'
  BY <1>6, AnnouncersStay DEF PIInv
<1>10. TextIsSomewhere'
  BY <1>1, <1>4, <1>6 DEF PIInv, TextIsSomewhere, Writing, HasRead, Holds
<1>11. LoneInit'
  BY <1>4 DEF LoneInit, lone
<1>12. GuidanceStays'
  BY <1>6 DEF GuidanceStays
<1>13. QED
  BY <1>7, <1>8, <1>9, <1>10, <1>11, <1>12 DEF PIInv

\* fs::write has truncated the config file (camp.rs:1244).
LEMMA OpenConfigKeeps ==
    ASSUME PIInv, NEW i \in Inits, OpenConfig(i)
    PROVE  PIInv'
<1>1. /\ Moves(i, "write_config") /\ init[i].pc = "open_config"
      /\ Typing
  BY StepMoves DEF PIInv, OpenConfig, Step, Phases
<1>2. /\ UNCHANGED <<agents_file, announcer, text, intact, complete>>
      /\ config_file' = Empty /\ requested' = Unset
  BY DEF OpenConfig, Step
<1>3. Typing'
  BY <1>1, <1>2 DEF Typing, Moves
<1>4. ConfigInStep'
  BY <1>2 DEF ConfigInStep
<1>5. AnnouncersRepeat'
  BY <1>2, AnnouncersStay DEF PIInv
<1>6. TextIsSomewhere'
  BY <1>1, <1>2 DEF PIInv, TextIsSomewhere, Writing, HasRead, Holds, Moves
<1>7. LoneInit'
  BY <1>1, <1>2 DEF PIInv, LoneInit, Moves
<1>8. GuidanceStays'
  BY <1>1, <1>2 DEF PIInv, GuidanceStays
<1>9. QED
  BY <1>3, <1>4, <1>5, <1>6, <1>7, <1>8 DEF PIInv

\* The config file is what this init was asked for, or is known to be nothing
\* (camp.rs:1235-1246).
LEMMA WriteConfigKeeps ==
    ASSUME PIInv, NEW i \in Inits, WriteConfig(i)
    PROVE  PIInv'
<1>1. /\ Moves(i, "read_guidance") /\ init[i].pc = "write_config"
      /\ Typing
  BY StepMoves DEF PIInv, WriteConfig, Step, Phases
<1>2. UNCHANGED <<agents_file, announcer, text, intact, complete>>
  BY DEF WriteConfig, Step
<1>3. init[i].options \in Resolutions
  BY <1>1 DEF Typing
<1> DEFINE options == init[i].options
           old == ReadCampConfig(config_file)
           From(tail, f) == IF f \in tail THEN old.discovery ELSE options
           left(tail) == Mixed(options, From(tail, "enable_interface"),
                                        From(tail, "disable_interface"))
<1>4. \/ config_file' = Written(ConfigOf(options)) /\ requested' = options
      \/ config_file' = Torn /\ requested' = Unset
      \/ /\ old # Invalid /\ requested' = Unset
         /\ \E tail : config_file' = Written(ConfigOf(left(tail)))
  BY DEF WriteConfig
<1>0. ASSUME old # Invalid, NEW tail
      PROVE  left(tail) \in Mixtures
  <2>1. PICK m \in Mixtures : config_file = Written(ConfigOf(m))
    BY <1>0 DEF PIInv, ConfigInStep, ReadCampConfig
  <2>2. old = ConfigOf(m)
    BY <2>1, ConfigReadsBack
  <2>3. /\ old.discovery.enable_interface = m.enable_interface
        /\ old.discovery.disable_interface = m.disable_interface
    BY <2>2 DEF ConfigOf, DiscoveryFields
  <2> DEFINE e == IF "enable_interface" \in tail THEN m ELSE options
             d == IF "disable_interface" \in tail THEN m ELSE options
  <2>4. e \in Mixtures /\ d \in Mixtures
    BY <1>3, MixturesAreSettled
  <2>5. left(tail) = Mixed(options, e, d)
    BY <2>3 DEF Mixed
  <2>6. QED
    BY <1>3, <2>4, <2>5, MixingMixes
<1> HIDE DEF left
<1>5. Typing'
  BY <1>1, <1>2 DEF Typing, Moves
<1>6. ConfigInStep'
  BY <1>3, <1>4, <1>0, MixturesAreSettled DEF PIInv, ConfigInStep
<1>7. AnnouncersRepeat'
  BY <1>2, AnnouncersStay DEF PIInv
<1>8. TextIsSomewhere'
  BY <1>1, <1>2 DEF PIInv, TextIsSomewhere, Writing, HasRead, Holds, Moves
<1>9. LoneInit'
  <2> SUFFICES ASSUME NEW j \in Inits, init'[j].alone
               PROVE  /\ \A k \in Inits \ {j} : init'[k].pc = "idle"
                      /\ j = i /\ requested' \in {Unset, init[i].options}
    BY <1>1 DEF LoneInit, Moves
  <2>1. init[j].alone
    BY <1>1 DEF Moves
  <2>2. j = i /\ requested = Unset /\ \A k \in Inits \ {j} : init[k].pc = "idle"
    BY <1>1, <2>1 DEF PIInv, LoneInit
  <2>3. QED
    BY <1>1, <1>4, <2>2 DEF Moves
<1>10. GuidanceStays'
  BY <1>1, <1>2 DEF PIInv, GuidanceStays
<1>11. QED
  BY <1>5, <1>6, <1>7, <1>8, <1>9, <1>10 DEF PIInv

\* What init reads of AGENTS.md is the user's text, unless another init is
\* writing it just then (camp.rs:1248-1261).
LEMMA ReadGuidanceKeeps ==
    ASSUME PIInv, NEW i \in Inits, ReadGuidance(i)
    PROVE  PIInv'
<1> DEFINE rec == [pc: Phases, options: Resolutions \cup {Unset},
                   seen: Seq(FileLine), alone: BOOLEAN]
<1> PICK found \in ReadOrEmpty(agents_file) :
       /\ init' = [init EXCEPT ![i].pc = "open_guidance", ![i].seen = found]
       /\ intact' = (intact /\ agents_file \in {found, None} /\ ~Opened(i))
  BY DEF ReadGuidance
<1>1. Typing /\ init \in [Inits -> rec] /\ init[i].pc = "read_guidance"
  BY DEF PIInv, Typing, ReadGuidance
<1>2. found \in Seq(FileLine)
  BY <1>1, EmptySeq DEF Typing, ReadOrEmpty, IsUtf8
<1>3. init' = [init EXCEPT ![i].pc = "open_guidance", ![i].seen = found]
  OBVIOUS
<1>4. /\ init'[i].pc = "open_guidance" /\ init'[i].seen = found
      /\ \A j \in Inits \ {i} : init'[j] = init[j]
      /\ \A j \in Inits : /\ init'[j].options = init[j].options
                          /\ init'[j].alone = init[j].alone
  BY <1>1, <1>3
<1>5. init' \in [Inits -> rec]
  BY <1>1, <1>2, <1>3 DEF Phases
<1>6. /\ UNCHANGED <<config_file, agents_file, announcer, requested, text, complete>>
      /\ intact' = (intact /\ agents_file \in {found, None} /\ ~Opened(i))
  BY DEF ReadGuidance, files
<1>7. Typing'
  BY <1>1, <1>4, <1>5, <1>6 DEF Typing
<1>8. ConfigInStep'
  BY <1>6 DEF PIInv, ConfigInStep
<1>9. AnnouncersRepeat'
  BY <1>6, AnnouncersStay DEF PIInv
<1>10. TextIsSomewhere'
  <2>1. intact' => \A j \in Inits : ~Writing(j)
    BY <1>1, <1>6 DEF Opened, Writing
  <2>2. intact' => Holds(found)
    BY <1>6, <2>1, NoLines
    DEF PIInv, TextIsSomewhere, Holds, ReadOrEmpty, IsUtf8
  <2>3. intact' => intact /\ UNCHANGED <<agents_file, text>>
    BY <1>6
  <2>4. \A j \in Inits : Writing(j)' => Writing(j)
    BY <1>4 DEF Writing
  <2>5. \A j \in Inits \ {i} : HasRead(j)' => HasRead(j) /\ init'[j].seen = init[j].seen
    BY <1>4 DEF HasRead
  <2>6. ASSUME intact'
        PROVE  \A j \in Inits : HasRead(j)' => Holds(init'[j].seen)
    BY <1>4, <2>2, <2>3, <2>5, <2>6 DEF PIInv, TextIsSomewhere
  <2>7. QED
    BY <2>1, <2>3, <2>4, <2>6 DEF PIInv, TextIsSomewhere, Holds
<1>11. LoneInit'
  BY <1>1, <1>4, <1>6 DEF PIInv, LoneInit
<1>12. GuidanceStays'
  BY <1>1, <1>6 DEF PIInv, GuidanceStays
<1>13. QED
  BY <1>7, <1>8, <1>9, <1>10, <1>11, <1>12 DEF PIInv

\* From here the text is in this init's memory alone (camp.rs:1268).
LEMMA OpenGuidanceKeeps ==
    ASSUME PIInv, NEW i \in Inits, OpenGuidance(i)
    PROVE  PIInv'
<1>1. /\ Moves(i, "write_guidance") /\ init[i].pc = "open_guidance"
      /\ Typing
  BY StepMoves DEF PIInv, OpenGuidance, Step, Phases
<1>2. /\ UNCHANGED <<config_file, announcer, requested, text, complete>>
      /\ agents_file' = <<>> /\ intact' = (intact /\ ~Opened(i))
  BY DEF OpenGuidance, Step
<1>3. <<>> \in Seq(FileLine) /\ <<>> # None
  BY EmptySeq, SentinelAssumption
<1>4. Typing'
  BY <1>1, <1>2, <1>3 DEF Typing, Moves
<1>5. ConfigInStep'
  BY <1>2 DEF PIInv, ConfigInStep
<1>6. AnnouncersRepeat'
  BY <1>2, AnnouncersStay DEF PIInv
<1>7. TextIsSomewhere'
  <2>1. intact' => \A j \in Inits : Writing(j)' => j = i
    <3>1. intact' => ~Opened(i)
      BY <1>2
    <3>2. \A j \in Inits \ {i} : Writing(j)' => Writing(j)
      BY <1>1 DEF Writing, Moves
    <3>3. QED
      BY <3>1, <3>2 DEF Opened, Writing
  <2>2. \A j \in Inits : HasRead(j)' => HasRead(j) /\ init'[j].seen = init[j].seen
    BY <1>1 DEF HasRead, Moves
  <2>3. Writing(i)'
    BY <1>1 DEF Writing, Moves
  <2>4. QED
    BY <1>2, <2>1, <2>2, <2>3 DEF PIInv, TextIsSomewhere, Holds
<1>8. LoneInit'
  BY <1>1, <1>2 DEF PIInv, LoneInit, Moves
<1>9. GuidanceStays'
  BY <1>1, <1>2 DEF PIInv, GuidanceStays
<1>10. QED
  BY <1>4, <1>5, <1>6, <1>7, <1>8, <1>9 DEF PIInv

\* An idle init is at no phase, and not one that is alone.
LEMMA Idle ==
    IdleInit.pc = "idle" /\ IdleInit.alone = FALSE
BY DEF IdleInit

\* An init that ends, done or killed.
Ends(i) ==
    /\ init'[i] = IdleInit
    /\ \A j \in Inits : init'[j] = init[j] \/ init'[j] = IdleInit
    /\ \A j \in Inits \ {i} : init'[j] = init[j]
    /\ init' \in [Inits -> [pc: Phases, options: Resolutions \cup {Unset},
                            seen: Seq(FileLine), alone: BOOLEAN]]

\* An init that is idle again has ended.
LEMMA Ending ==
    ASSUME Typing, NEW i \in Inits, init' = [init EXCEPT ![i] = IdleInit]
    PROVE  Ends(i)
<1>1. IdleInit \in [pc: Phases, options: Resolutions \cup {Unset},
                    seen: Seq(FileLine), alone: BOOLEAN]
  BY EmptySeq DEF IdleInit, Phases
<1> HIDE DEF IdleInit
<1>2. QED
  BY <1>1 DEF Typing, Ends

\* The text is back in AGENTS.md, around the new block (camp.rs:1262-1270).
LEMMA WriteGuidanceKeeps ==
    ASSUME PIInv, NEW i \in Inits, WriteGuidance(i)
    PROVE  PIInv'
<1> DEFINE project == init[i].options.project
           updated == ReplaceMarkedBlock(init[i].seen, Guidance(project))
           rest == SubSeq(agents_file, Len(updated) + 1, Len(agents_file))
<1>1. /\ Typing /\ Writing(i) /\ init[i].seen \in Seq(FileLine)
      /\ init[i].options \in Resolutions /\ agents_file \in Seq(FileLine)
  BY DEF PIInv, Typing, WriteGuidance, Writing
<1>2. Ends(i)
  BY <1>1, Ending DEF WriteGuidance
<1>3. project \in Texts
  BY <1>1, MixturesAreSettled, OptionsAreFunctions
<1>4. /\ UNCHANGED <<config_file, announcer, requested, text, intact>>
      /\ agents_file' = updated \o rest
      /\ complete' = (init[i].alone /\ requested # Unset)
  BY DEF WriteGuidance
<1> HIDE DEF project
<1>5. /\ updated \in Seq(FileLine)
      /\ \E k \in Nat : HasBlock(updated, k, project)
  BY <1>1, <1>3, ReplaceWrites
<1>6. WellMarked(init[i].seen) =>
         WellMarked(updated) /\ LinesIn(updated) = LinesIn(init[i].seen)
  BY <1>1, <1>3, ReplaceKeepsText
<1> HIDE DEF updated
<1>7. /\ Len(updated) \in Nat /\ Len(agents_file) \in Nat
      /\ DOMAIN updated = 1..Len(updated)
  BY <1>1, <1>5, LenProperties
<1>8. rest \in Seq(FileLine)
  <2>1. \A k \in (Len(updated) + 1)..Len(agents_file) : agents_file[k] \in FileLine
    BY <1>1, <1>7, ElementOfSeq
  <2>2. QED
    BY <1>1, <1>7, <2>1, SubSeqProperties
<1>9. agents_file = <<>> => rest = <<>>
  BY <1>7
<1> HIDE DEF rest
<1>10. /\ agents_file' \in Seq(FileLine) /\ agents_file' # None
       /\ \A k \in DOMAIN updated :
             k \in DOMAIN agents_file' /\ agents_file'[k] = updated[k]
  <2>1. /\ updated \o rest \in Seq(FileLine)
        /\ Len(updated \o rest) = Len(updated) + Len(rest)
        /\ \A k \in 1..(Len(updated) + Len(rest)) :
              (updated \o rest)[k] = IF k <= Len(updated) THEN updated[k]
                                     ELSE rest[k - Len(updated)]
        /\ Len(rest) \in Nat
    BY <1>5, <1>8, ConcatProperties, LenProperties
  <2>2. DOMAIN (updated \o rest) = 1..(Len(updated) + Len(rest))
    BY <2>1, LenProperties
  <2>3. \A k \in DOMAIN updated :
           k \in DOMAIN (updated \o rest) /\ (updated \o rest)[k] = updated[k]
    BY <1>7, <2>1, <2>2
  <2>4. updated \o rest # None
    BY <2>1, SentinelAssumption
  <2>5. QED
    BY <1>4, <2>1, <2>3, <2>4
<1>11. Typing'
  <2>1. \A j \in Inits : init'[j].pc # "idle" => init'[j].options \in Resolutions
    BY <1>1, <1>2, Idle DEF Typing, Ends
  <2>2. intact' \in BOOLEAN /\ complete' \in BOOLEAN
    BY <1>1, <1>4 DEF Typing
  <2>3. QED
    BY <1>2, <1>10, <2>1, <2>2 DEF Typing, Ends
<1>12. ConfigInStep'
  BY <1>4 DEF PIInv, ConfigInStep
<1>13. AnnouncersRepeat'
  BY <1>4, AnnouncersStay DEF PIInv
<1>14. TextIsSomewhere'
  <2> SUFFICES ASSUME intact' PROVE TextIsSomewhere'
    BY DEF TextIsSomewhere
  <2>1. intact /\ \A j \in Inits : Writing(j) => j = i
    BY <1>1, <1>4 DEF PIInv, TextIsSomewhere
  <2>2. \A j \in Inits : ~Writing(j)'
    BY <1>2, <2>1, Idle DEF Writing, Ends
  <2>3. \A j \in Inits : HasRead(j)' => HasRead(j) /\ init'[j] = init[j]
    BY <1>2, Idle DEF HasRead, Ends
  <2>4. Holds(init[i].seen)
    BY <1>1, <2>1 DEF PIInv, TextIsSomewhere, HasRead, Writing
  <2>5. agents_file' = updated
    BY <1>1, <1>4, <1>5, <1>9, <2>1, ConcatEmptySeq DEF PIInv, TextIsSomewhere
  <2>6. Holds(agents_file)'
    BY <1>4, <1>6, <2>4, <2>5 DEF Holds
  <2>7. \A j \in Inits : HasRead(j)' => Holds(init[j].seen)' /\ init'[j] = init[j]
    BY <1>4, <2>1, <2>3 DEF PIInv, TextIsSomewhere, Holds
  <2>8. QED
    BY <1>10, <2>2, <2>6, <2>7 DEF TextIsSomewhere, Holds
<1>15. LoneInit'
  <2> SUFFICES ASSUME NEW j \in Inits, init'[j].alone PROVE FALSE
    BY DEF LoneInit
  <2>1. j # i /\ init[j].alone
    BY <1>2, Idle DEF Ends
  <2>2. init[i].pc = "idle"
    BY <2>1 DEF PIInv, LoneInit
  <2>3. QED
    BY <1>1, <2>2 DEF Writing
<1>16. GuidanceStays'
  <2> SUFFICES ASSUME complete' PROVE GuidanceStays'
    BY DEF GuidanceStays
  <2>1. init[i].alone /\ requested # Unset /\ requested' = requested
    BY <1>4
  <2>2. requested = init[i].options /\ requested' # Unset
    BY <1>1, <2>1 DEF PIInv, LoneInit, Writing
  <2>3. \A j \in Inits : init'[j].pc = "idle"
    BY <1>2, <2>1, Idle DEF PIInv, LoneInit, Ends
  <2>4. PICK k \in Nat : HasBlock(updated, k, project)
    BY <1>5
  <2>5. k + 1 \in DOMAIN updated
    BY <1>7, <2>4 DEF HasBlock
  <2>6. HasBlock(agents_file', k, project)
    BY <1>10, <2>4, <2>5 DEF HasBlock
  <2>7. requested'.project = project
    BY <1>4, <2>2 DEF project
  <2>8. QED
    BY <1>10, <2>2, <2>3, <2>6, <2>7 DEF GuidanceStays
<1>17. QED
  BY <1>11, <1>12, <1>13, <1>14, <1>15, <1>16 DEF PIInv

\* A killed init takes the text along only if it was writing it.
LEMMA DiesKeeps ==
    ASSUME PIInv, NEW i \in Inits, Dies(i)
    PROVE  PIInv'
<1>1. Typing /\ init[i].pc # "idle"
  BY DEF PIInv, Dies
<1>2. Ends(i)
  BY <1>1, Ending DEF Dies
<1>3. /\ UNCHANGED <<config_file, agents_file, announcer, requested, text, complete>>
      /\ intact' = (intact /\ ~Writing(i))
  BY DEF Dies, files, Writing
<1>4. \A j \in Inits : init'[j] = init[j] \/ init'[j] = IdleInit
  BY <1>2 DEF Ends
<1>5. IdleInit.pc = "idle" /\ IdleInit.alone = FALSE
  BY Idle
<1>6. Typing'
  BY <1>1, <1>2, <1>3, <1>4, <1>5 DEF Typing, Ends
<1>7. ConfigInStep'
  BY <1>3 DEF PIInv, ConfigInStep
<1>8. AnnouncersRepeat'
  BY <1>3, AnnouncersStay DEF PIInv
<1>9. TextIsSomewhere'
  <2>1. \A j \in Inits : Writing(j)' => Writing(j)
    BY <1>4, <1>5 DEF Writing
  <2>2. \A j \in Inits : HasRead(j)' => HasRead(j) /\ init'[j] = init[j]
    BY <1>4, <1>5 DEF HasRead
  <2>3. \A j \in Inits : ~Writing(i) /\ Writing(j) => Writing(j)'
    BY <1>2 DEF Writing, Ends
  <2>4. QED
    BY <1>3, <2>1, <2>2, <2>3 DEF PIInv, TextIsSomewhere, Holds
<1>10. LoneInit'
  BY <1>3, <1>4, <1>5 DEF PIInv, LoneInit
<1>11. GuidanceStays'
  BY <1>1, <1>3 DEF PIInv, GuidanceStays
<1>12. QED
  BY <1>6, <1>7, <1>8, <1>9, <1>10, <1>11 DEF PIInv

-----------------------------------------------------------------------------
(* The invariant: after each action of the user and of an announcer. *)

\* Where the marks are whole, the guidance line stands for its block.
LEMMA GuidanceInBlock ==
    ASSUME NEW lines \in Seq(FileLine), WellMarked(lines), NEW project,
           NEW g \in DOMAIN lines,
           lines[g] = [kind |-> "guidance", words |-> project]
    PROVE  \E k \in Nat : HasBlock(lines, k, project)
<1>1. g \notin LinePlaces(lines)
  BY DEF LinePlaces
<1>2. PICK k \in Nat : /\ k..(k + 2) \subseteq DOMAIN lines
                       /\ LinePlaces(lines) = DOMAIN lines \ (k..(k + 2))
                       /\ lines[k] = Start /\ lines[k + 2] = End
  BY <1>1, MarkedOnce
<1>3. g \in k..(k + 2) /\ g # k /\ g # k + 2
  BY <1>1, <1>2, Markers
<1>4. g = k + 1 /\ k \in k..(k + 2) /\ k + 2 \in k..(k + 2)
  BY <1>3
<1>5. QED
  BY <1>2, <1>4 DEF HasBlock

\* A line the user adds leaves the guidance line of a block in the file.
LEMMA InsertKeepsBlock ==
    ASSUME NEW old \in Seq(FileLine), NEW p \in 1..(Len(old) + 1),
           NEW line \in UserLines, NEW new, new = InsertAt(old, p, Line(line))
    PROVE  /\ new \in Seq(FileLine)
           /\ \A k \in Nat, project \in Texts :
                 HasBlock(old, k, project) /\ WellMarked(new) =>
                    \E m \in Nat : HasBlock(new, m, project)
<1>1. /\ new \in Seq(FileLine) /\ DOMAIN new = 1..(Len(old) + 1)
      /\ \A k \in 1..Len(old) : new[IF k < p THEN k ELSE k + 1] = old[k]
      /\ Len(old) \in Nat /\ DOMAIN old = 1..Len(old)
  BY Inserted, Markers, LenProperties
<1>2. SUFFICES ASSUME NEW k \in Nat, NEW project \in Texts,
                      HasBlock(old, k, project), WellMarked(new)
               PROVE  \E m \in Nat : HasBlock(new, m, project)
  BY <1>1
<1>3. /\ k \in 1..Len(old) /\ k + 2 \in 1..Len(old)
      /\ old[k + 1] = [kind |-> "guidance", words |-> project]
  BY <1>1, <1>2 DEF HasBlock
<1>4. k + 1 \in 1..Len(old)
  BY <1>1, <1>3
<1>5. PICK g \in 1..(Len(old) + 1) : new[g] = old[k + 1]
  <2>1. (IF k + 1 < p THEN k + 1 ELSE k + 1 + 1) \in 1..(Len(old) + 1)
    BY <1>1, <1>4
  <2>2. QED
    BY <1>1, <1>4, <2>1
<1>6. QED
  BY <1>1, <1>2, <1>3, <1>5, GuidanceInBlock

\* So does a line the user removes, unless it is that one; but then the
\* marks left over are not whole.
LEMMA RemoveKeepsBlock ==
    ASSUME NEW old \in Seq(FileLine), NEW p \in 1..Len(old), NEW new,
           new = RemoveAt(old, p)
    PROVE  /\ new \in Seq(FileLine)
           /\ \A k \in Nat, project \in Texts :
                 HasBlock(old, k, project) /\ WellMarked(new) =>
                    \E m \in Nat : HasBlock(new, m, project)
<1>1. /\ new \in Seq(FileLine) /\ DOMAIN new = 1..(Len(old) - 1)
      /\ \A k \in 1..Len(old) : k # p => new[IF k < p THEN k ELSE k - 1] = old[k]
      /\ Len(old) \in Nat /\ DOMAIN old = 1..Len(old)
  BY Removed, LenProperties
<1>2. SUFFICES ASSUME NEW k \in Nat, NEW project \in Texts,
                      HasBlock(old, k, project), WellMarked(new)
               PROVE  \E m \in Nat : HasBlock(new, m, project)
  BY <1>1
<1>3. /\ k \in 1..Len(old) /\ k + 2 \in 1..Len(old)
      /\ old[k] = Start /\ old[k + 2] = End
      /\ old[k + 1] = [kind |-> "guidance", words |-> project]
  BY <1>1, <1>2 DEF HasBlock
<1>4. k + 1 \in 1..Len(old)
  BY <1>1, <1>3
<1>5. CASE p # k + 1
  <2>1. PICK g \in 1..(Len(old) - 1) : new[g] = old[k + 1]
    <3>1. (IF k + 1 < p THEN k + 1 ELSE k + 1 - 1) \in 1..(Len(old) - 1)
      BY <1>1, <1>3, <1>4, <1>5
    <3>2. QED
      BY <1>1, <1>4, <1>5, <3>1
  <2>2. QED
    BY <1>1, <1>2, <1>3, <2>1, GuidanceInBlock
<1>6. CASE p = k + 1
  <2>1. new[k] = Start
    BY <1>1, <1>3, <1>6
  <2>2. new[k + 1] = End
    <3>1. k + 2 # p /\ ~(k + 2 < p) /\ (k + 2) - 1 = k + 1
      BY <1>6
    <3>2. QED
      BY <1>1, <1>3, <3>1
  <2>3. k \in DOMAIN new /\ k + 1 \in DOMAIN new
    BY <1>1, <1>3
  <2>4. k \notin LinePlaces(new) /\ k + 1 \notin LinePlaces(new)
    BY <2>1, <2>2, Markers DEF LinePlaces
  <2>5. PICK m \in Nat : /\ LinePlaces(new) = DOMAIN new \ (m..(m + 2))
                         /\ new[m] = Start /\ new[m + 2] = End
                         /\ new[m + 1].kind = "guidance"
    BY <1>1, <1>2, <2>3, <2>4, MarkedOnce
  <2>6. k \in m..(m + 2) /\ k + 1 \in m..(m + 2)
    BY <2>3, <2>4, <2>5
  <2>7. k # m + 1 /\ k # m + 2 /\ k + 1 # m + 1
    BY <2>1, <2>2, <2>5, Markers
  <2>8. QED
    BY <2>6, <2>7
<1>7. QED
  BY <1>5, <1>6

\* What the user saves is the text from now on; a lone init's block is still
\* in it if the marks are whole.
LEMMA SavesKeeps ==
    ASSUME PIInv, NEW lines \in Seq(FileLine), Saves(lines),
           \A k \in Nat, project \in Texts :
              HasBlock(agents_file, k, project) /\ WellMarked(lines) =>
                 \E m \in Nat : HasBlock(lines, m, project)
    PROVE  PIInv'
<1>1. /\ UNCHANGED <<config_file, init, announcer, requested>>
      /\ agents_file' = lines /\ text' = LinesIn(lines)
      /\ complete' = (complete /\ WellMarked(lines))
      /\ intact' = (/\ WellMarked(lines)
                    /\ \A i \in Inits :
                       init[i].pc \notin {"open_guidance", "write_guidance"})
  BY DEF Saves
<1>2. lines # None
  BY SentinelAssumption
<1>3. Typing'
  <2>1. intact' \in BOOLEAN /\ complete' \in BOOLEAN
    BY <1>1
  <2>2. QED
    BY <1>1, <1>2, <2>1 DEF PIInv, Typing
<1>4. ConfigInStep'
  BY <1>1 DEF PIInv, ConfigInStep
<1>5. AnnouncersRepeat'
  BY <1>1, AnnouncersStay DEF PIInv
<1>6. TextIsSomewhere'
  <2> SUFFICES ASSUME intact' PROVE TextIsSomewhere'
    BY DEF TextIsSomewhere
  <2>1. \A i \in Inits : ~Writing(i)' /\ ~HasRead(i)'
    BY <1>1 DEF Writing, HasRead
  <2>2. Holds(agents_file)'
    BY <1>1 DEF Holds
  <2>3. QED
    BY <1>1, <1>2, <2>1, <2>2 DEF TextIsSomewhere, Holds
<1>7. LoneInit'
  BY <1>1 DEF PIInv, LoneInit
<1>8. GuidanceStays'
  <2> SUFFICES ASSUME complete' PROVE GuidanceStays'
    BY DEF GuidanceStays
  <2>1. complete /\ WellMarked(lines)
    BY <1>1
  <2>2. PICK k \in Nat : HasBlock(agents_file, k, requested.project)
    BY <2>1 DEF PIInv, GuidanceStays
  <2>3. requested \in Resolutions
    BY <2>1 DEF PIInv, GuidanceStays, ConfigInStep
  <2>4. requested.project \in Texts
    BY <2>3, MixturesAreSettled, OptionsAreFunctions
  <2>5. \E m \in Nat : HasBlock(lines, m, requested.project)
    BY <2>1, <2>2, <2>4
  <2>6. QED
    BY <1>1, <1>2, <2>1, <2>5 DEF PIInv, GuidanceStays
<1>9. QED
  BY <1>3, <1>4, <1>5, <1>6, <1>7, <1>8 DEF PIInv

\* The user's edits are such.
LEMMA EditsKeep ==
    ASSUME PIInv, NEW k \in 1..(3 * MaxInits + MaxEdits + 1),
           RemoveLine(k) \/ \E line \in UserLines : InsertLine(k, line)
    PROVE  PIInv'
<1>1. k \in Nat /\ k >= 1
  BY ProjectAssumption
<1>2. agents_file \in Seq(FileLine)
  BY DEF PIInv, Typing, RemoveLine, InsertLine
<1>3. Len(agents_file) \in Nat
  BY <1>2, LenProperties
<1>4. CASE RemoveLine(k)
  <2> DEFINE new == RemoveAt(agents_file, k)
  <2>1. k \in 1..Len(agents_file) /\ Saves(new)
    BY <1>1, <1>3, <1>4 DEF RemoveLine
  <2> HIDE DEF new
  <2>2. /\ new \in Seq(FileLine)
        /\ \A j \in Nat, project \in Texts :
              HasBlock(agents_file, j, project) /\ WellMarked(new) =>
                 \E m \in Nat : HasBlock(new, m, project)
    BY <1>2, <2>1, RemoveKeepsBlock DEF new
  <2>3. QED
    BY <2>1, <2>2, SavesKeeps
<1>5. ASSUME NEW line \in UserLines, InsertLine(k, line)
      PROVE  PIInv'
  <2> DEFINE new == InsertAt(agents_file, k, Line(line))
  <2>1. k \in 1..(Len(agents_file) + 1) /\ Saves(new)
    BY <1>1, <1>3, <1>5 DEF InsertLine
  <2> HIDE DEF new
  <2>2. /\ new \in Seq(FileLine)
        /\ \A j \in Nat, project \in Texts :
              HasBlock(agents_file, j, project) /\ WellMarked(new) =>
                 \E m \in Nat : HasBlock(new, m, project)
    BY <1>2, <2>1, InsertKeepsBlock DEF new
  <2>3. QED
    BY <2>1, <2>2, SavesKeeps
<1>6. QED
  BY <1>4, <1>5

\* Without a config file there is nothing for the guidance to be true to.
LEMMA DeleteConfigKeeps ==
    ASSUME PIInv, DeleteConfig
    PROVE  PIInv'
<1> DEFINE rec == [pc: Phases, options: Resolutions \cup {Unset},
                   seen: Seq(FileLine), alone: BOOLEAN]
           moved(i) == [init[i] EXCEPT !.pc = "read_guidance"]
<1>1. /\ UNCHANGED <<agents_file, announcer, text, intact>>
      /\ config_file' = None /\ requested' = Unset /\ complete' = FALSE
      /\ init' = [i \in Inits |-> IF init[i].pc # "write_config" THEN init[i]
                                 ELSE moved(i)]
  BY DEF DeleteConfig
<1>2. Typing /\ init \in [Inits -> rec]
  BY DEF PIInv, Typing
<1>3. ASSUME NEW i \in Inits
      PROVE  /\ moved(i) \in rec /\ moved(i).pc = "read_guidance"
             /\ moved(i).options = init[i].options /\ moved(i).seen = init[i].seen
             /\ moved(i).alone = init[i].alone
  BY <1>2 DEF Phases
<1> HIDE DEF moved, rec
<1>4. ASSUME NEW i \in Inits
      PROVE  /\ init'[i] \in rec
             /\ \/ init'[i].pc = init[i].pc
                \/ init[i].pc = "write_config" /\ init'[i].pc = "read_guidance"
             /\ init'[i].options = init[i].options /\ init'[i].seen = init[i].seen
             /\ init'[i].alone = init[i].alone
  BY <1>1, <1>2, <1>3
<1>5. Typing'
  <2>1. init' \in [Inits -> rec]
    BY <1>1, <1>4
  <2>2. QED
    BY <1>1, <1>2, <1>4, <2>1 DEF Typing, rec
<1>6. ConfigInStep'
  BY <1>1 DEF ConfigInStep
<1>7. AnnouncersRepeat'
  BY <1>1, AnnouncersStay DEF PIInv
<1>8. TextIsSomewhere'
  BY <1>1, <1>4 DEF PIInv, TextIsSomewhere, Writing, HasRead, Holds
<1>9. LoneInit'
  BY <1>1, <1>4 DEF PIInv, LoneInit
<1>10. GuidanceStays'
  BY <1>1 DEF GuidanceStays
<1>11. QED
  BY <1>5, <1>6, <1>7, <1>8, <1>9, <1>10 DEF PIInv

\* What leaves the files and the inits alone disturbs the announcers at most.
LEMMA FilesStay ==
    ASSUME PIInv, UNCHANGED <<files, init, history>>, AnnouncersRepeat'
    PROVE  PIInv'
<1>1. UNCHANGED <<config_file, agents_file, init, requested, text, intact, complete>>
  BY DEF files, history
<1>2. Typing' /\ ConfigInStep' /\ LoneInit' /\ GuidanceStays'
  BY <1>1 DEF PIInv, Typing, ConfigInStep, LoneInit, GuidanceStays
<1>3. TextIsSomewhere'
  BY <1>1 DEF PIInv, TextIsSomewhere, Writing, HasRead, Holds
<1>4. QED
  BY <1>2, <1>3 DEF PIInv

\* A new announcer is what its options stand for (camp.rs:735-766).
LEMMA GoesOnlineKeeps ==
    ASSUME PIInv, NEW s \in Slots, NEW options \in Settled, NEW config,
           config = AnnouncedConfig(AnnounceSettings(options)),
           Trim[options.id] # Fresh, NEW told \in {options, Unset},
           GoesOnline(s, config, told)
    PROVE  PIInv'
<1> DEFINE started == [config |-> config, options |-> told]
<1>1. /\ announcer' = [announcer EXCEPT ![s] = started]
      /\ config # Invalid /\ UNCHANGED <<files, init, history>>
  BY DEF GoesOnline
<1>2. started.config = config /\ started.options = told
  OBVIOUS
<1> HIDE DEF started
<1>3. announcer = [r \in Slots |-> announcer[r]]
  BY DEF PIInv, AnnouncersRepeat
<1>4. /\ announcer' = [r \in Slots |-> announcer'[r]]
      /\ \A r \in Slots : announcer'[r] = IF r = s THEN started ELSE announcer[r]
  BY <1>1, <1>3
<1>5. \A r \in Slots :
         r \in Running' =>
            \/ r = s
            \/ r \in Running /\ announcer'[r] = announcer[r]
  <2>1. \A r \in Slots : r # s => announcer'[r] = announcer[r]
    BY <1>4
  <2>2. QED
    BY <2>1 DEF Running
<1>6. \A r \in Running' : r \in Slots
  BY DEF Running
<1>7. AnnouncersRepeat'
  <2>1. StandsFor(started.config, options) /\ started.options \in {options, Unset}
    BY <1>1, <1>2 DEF StandsFor
  <2> HIDE DEF Running
  <2>2. QED
    BY <1>4, <1>5, <1>6, <2>1 DEF PIInv, AnnouncersRepeat
<1>8. QED
  BY <1>1, <1>7, FilesStay

\* That of camp up is what the options in the config file stand for
\* (camp.rs:559-563).
LEMMA UpKeeps ==
    ASSUME PIInv, NEW s \in Slots, Up(s)
    PROVE  PIInv'
<1>1. PICK o \in Mixtures : /\ config_file = Written(ConfigOf(o))
                            /\ requested \in {o, Unset}
  <2>1. CASE requested # Unset
    BY <2>1, MixturesAreSettled DEF PIInv, ConfigInStep
  <2>2. CASE requested = Unset
    BY <2>2 DEF Up, ReadCampConfig, PIInv, ConfigInStep
  <2>3. QED
    BY <2>1, <2>2
<1>2. AnnouncedConfig(FromConfigFile(ReadCampConfig(config_file)))
        = AnnouncedConfig(AnnounceSettings(o))
  BY <1>1, ConfigReadsBack, UpIsAnnounce
<1>3. o \in Settled /\ Trim[o.id] # Fresh
  BY MixturesAreSettled
<1>4. QED
  BY <1>1, <1>2, <1>3, GoesOnlineKeeps DEF Up

\* That of camp announce is what its own options stand for (camp.rs:565-586).
LEMMA AnnounceKeeps ==
    ASSUME PIInv, NEW s \in Slots, NEW command \in Commands, Announce(s, command)
    PROVE  PIInv'
<1>1. /\ AnnounceOptions(command) \in Settled
      /\ Trim[AnnounceOptions(command).id] # Fresh
  BY AnnouncedIsSettled DEF Announce
<1>2. QED
  BY <1>1, GoesOnlineKeeps DEF Announce

\* An announcer that ends is no announcer (camp.rs:785-793).
LEMMA GoesOfflineKeeps ==
    ASSUME PIInv, NEW s \in Slots, GoesOffline(s)
    PROVE  PIInv'
<1>1. /\ announcer' = [announcer EXCEPT ![s] = Unset]
      /\ UNCHANGED <<files, init, history>>
  BY DEF GoesOffline
<1>2. announcer = [r \in Slots |-> announcer[r]]
  BY DEF PIInv, AnnouncersRepeat
<1>3. /\ announcer' = [r \in Slots |-> announcer'[r]]
      /\ \A r \in Slots : announcer'[r] = IF r = s THEN Unset ELSE announcer[r]
  BY <1>1, <1>2
<1>4. \A r \in Running' : r \in Running /\ announcer'[r] = announcer[r]
  BY <1>3 DEF Running
<1>5. AnnouncersRepeat'
  BY <1>3, <1>4 DEF PIInv, AnnouncersRepeat
<1>6. QED
  BY <1>1, <1>5, FilesStay

-----------------------------------------------------------------------------
(* The theorems. *)

(***************************************************************************)
(* What the repository, the config file, the inits and the announcers know *)
(* of each other, after every step of any of them or of the user           *)
(* (camp.rs:452-586,1248-1312).                                            *)
(***************************************************************************)
THEOREM ProjectInductiveInvariant == ProjectSpec => []PIInv
<1>1. ProjectInit => PIInv
  BY ProjectStarts
<1>2. ASSUME PIInv, [ProjectNext]_projectVars
      PROVE  PIInv'
  <2>1. ASSUME NEW i \in Inits, NEW command \in Commands, NEW force \in BOOLEAN,
               NEW env \in Environments, BeginInit(i, command, force, env)
        PROVE  PIInv'
    BY <1>2, <2>1, BeginKeeps
  <2>2. ASSUME NEW i \in Inits, OpenConfig(i) \/ WriteConfig(i)
        PROVE  PIInv'
    BY <1>2, <2>2, OpenConfigKeeps, WriteConfigKeeps
  <2>3. ASSUME NEW i \in Inits,
               ReadGuidance(i) \/ OpenGuidance(i) \/ WriteGuidance(i)
        PROVE  PIInv'
    BY <1>2, <2>3, ReadGuidanceKeeps, OpenGuidanceKeeps, WriteGuidanceKeeps
  <2>4. ASSUME NEW i \in Inits, Dies(i)
        PROVE  PIInv'
    BY <1>2, <2>4, DiesKeeps
  <2>5. ASSUME NEW k \in 1..(3 * MaxInits + MaxEdits + 1),
               RemoveLine(k) \/ \E line \in UserLines : InsertLine(k, line)
        PROVE  PIInv'
    BY <1>2, <2>5, EditsKeep
  <2>6. CASE DeleteConfig
    BY <1>2, <2>6, DeleteConfigKeeps
  <2>7. ASSUME NEW s \in Slots, Up(s) \/ GoesOffline(s)
        PROVE  PIInv'
    BY <1>2, <2>7, UpKeeps, GoesOfflineKeeps
  <2>8. ASSUME NEW s \in Slots, NEW command \in Commands, Announce(s, command)
        PROVE  PIInv'
    BY <1>2, <2>8, AnnounceKeeps
  <2>9. CASE UNCHANGED projectVars
    <3>1. /\ UNCHANGED <<files, init, history>> /\ announcer' = announcer
      BY <2>9 DEF projectVars
    <3>2. QED
      BY <1>2, <3>1, AnnouncersStay, FilesStay DEF PIInv
  <2>10. QED
    BY <1>2, <2>1, <2>2, <2>3, <2>4, <2>5, <2>6, <2>7, <2>8, <2>9
    DEF ProjectNext
<1>3. QED
  BY <1>1, <1>2, PTL DEF ProjectSpec

(***************************************************************************)
(* An init's phase, what is in the files, and the names of every agent     *)
(* that runs, trimmed, are what the code lets them be.                     *)
(***************************************************************************)
THEOREM ProjectTypeCorrect == ProjectSpec => []ProjectTypeOK
<1>1. ASSUME PIInv
      PROVE  ProjectTypeOK
  <2>1. requested # Unset => config_file \notin {None, Empty, Torn}
    BY <1>1, MixturesAreSettled DEF PIInv, ConfigInStep
  <2>2. requested = Unset \/ DOMAIN requested = AgentFields \cup DiscoveryFields
    <3>1. requested = Unset \/ requested \in Settled
      BY <1>1, MixturesAreSettled DEF PIInv, ConfigInStep
    <3>2. QED
      BY <3>1, OptionsAreFunctions DEF Fields
  <2>3. agents_file = None \/ \A k \in DOMAIN agents_file :
           agents_file[k].kind \in {"line", "start", "guidance", "end"}
    <3>1. SUFFICES ASSUME agents_file \in Seq(FileLine),
                          NEW k \in DOMAIN agents_file
                   PROVE  agents_file[k].kind
                            \in {"line", "start", "guidance", "end"}
      BY <1>1 DEF PIInv, Typing
    <3>2. agents_file[k] \in FileLine
      BY <3>1, LenProperties, ElementOfSeq
    <3>3. QED
      BY <3>2 DEF FileLine
  <2>4. \A i \in Inits : init[i].pc \in Phases
    BY <1>1 DEF PIInv, Typing
  <2>5. ASSUME NEW s \in Running, NEW f \in RequiredFields
        PROVE  /\ announcer[s].config[f] \in Texts
               /\ Trim[announcer[s].config[f]] = announcer[s].config[f]
    <3> DEFINE c == announcer[s].config
    <3>1. PICK o \in Settled : c = AnnouncedConfig(AnnounceSettings(o)) /\ c # Invalid
      BY <1>1 DEF PIInv, AnnouncersRepeat, StandsFor
    <3> HIDE DEF c
    <3>2. IsTrimmed(c)
      BY <3>1, AnnouncedIsConfig
    <3>3. QED
      BY <3>2 DEF c, IsTrimmed
  <2>6. {intact, complete} \subseteq BOOLEAN
    BY <1>1 DEF PIInv, Typing
  <2>7. QED
    BY <2>1, <2>2, <2>3, <2>4, <2>5, <2>6 DEF ProjectTypeOK, Phases
<1>2. QED
  BY <1>1, ProjectInductiveInvariant, PTL

(***************************************************************************)
(* However often camp init is run, and whatever it is asked for, it keeps  *)
(* the user's lines of AGENTS.md, in their order, as long as nothing that  *)
(* `intact` excludes has happened (camp.rs:1248-1312).                     *)
(***************************************************************************)
THEOREM UserTextAlwaysSurvives == ProjectSpec => []UserTextSurvives
<1>1. ASSUME PIInv, intact, \A i \in Inits : init[i].pc # "write_guidance"
      PROVE  LinesIn(agents_file) = text
  <2>1. IF agents_file = None THEN text = <<>> ELSE Holds(agents_file)
    BY <1>1 DEF PIInv, TextIsSomewhere, Writing
  <2>2. QED
    BY <2>1 DEF Holds, LinesIn
<1>2. PIInv => UserTextSurvives
  BY <1>1 DEF UserTextSurvives
<1>3. QED
  BY <1>2, ProjectInductiveInvariant, PTL

(***************************************************************************)
(* After an init that ran alone the guidance names the config file's       *)
(* project, and no other guidance is in a file with whole markers          *)
(* (camp.rs:545-546,1292-1312).                                            *)
(***************************************************************************)
THEOREM GuidanceAlwaysCurrent == ProjectSpec => []GuidanceIsCurrent
<1>1. ASSUME PIInv, complete
      PROVE  LET config == ReadCampConfig(config_file) IN
             /\ config # Invalid
             /\ \E k \in 1..(Len(agents_file) - 2) :
                   SubSeq(agents_file, k, k + 2) = Guidance(config.agent.project)
             /\ intact => Cardinality({k \in DOMAIN agents_file :
                                          agents_file[k].kind = "guidance"}) = 1
  <2> DEFINE project == requested.project
             places == {k \in DOMAIN agents_file :
                           agents_file[k].kind = "guidance"}
  <2>1. /\ requested \in Resolutions /\ config_file = Written(ConfigOf(requested))
        /\ agents_file \in Seq(FileLine)
    BY <1>1 DEF PIInv, GuidanceStays, ConfigInStep, Typing
  <2>2. /\ ReadCampConfig(config_file) = ConfigOf(requested)
        /\ ConfigOf(requested) # Invalid
    BY <2>1, ConfigReadsBack, MixturesAreSettled
  <2>3. ConfigOf(requested).agent.project = project
    BY DEF ConfigOf, AgentFields
  <2>4. PICK k \in Nat : HasBlock(agents_file, k, project)
    BY <1>1 DEF PIInv, GuidanceStays
  <2>5. Len(agents_file) \in Nat /\ DOMAIN agents_file = 1..Len(agents_file)
    BY <2>1, LenProperties
  <2>6. k \in 1..(Len(agents_file) - 2) /\ k + 1 \in DOMAIN agents_file
    BY <2>4, <2>5 DEF HasBlock
  <2> HIDE DEF project
  <2>7. SubSeq(agents_file, k, k + 2) = Guidance(project)
    <3> DEFINE middle == [kind |-> "guidance", words |-> project]
               part == SubSeq(agents_file, k, k + 2)
    <3>1. \A i \in k..(k + 2) : agents_file[i] \in FileLine
      BY <2>1, <2>5, <2>6, ElementOfSeq
    <3>2. /\ part \in Seq(FileLine) /\ Len(part) = 3
          /\ \A i \in 1..3 : part[i] = agents_file[k + i - 1]
      <4>1. k + 2 - k + 1 = 3 /\ k <= k + 2 /\ k + 2 \in Int
        OBVIOUS
      <4>2. Len(part) = IF k <= k + 2 THEN k + 2 - k + 1 ELSE 0
        BY <2>1, <3>1, <4>1, SubSeqProperties
      <4>3. part = [i \in 1..(k + 2 - k + 1) |-> agents_file[k + i - 1]]
        BY <2>5, <2>6
      <4>4. part = [i \in 1..3 |-> agents_file[k + i - 1]]
        BY <4>1, <4>3
      <4>5. QED
        BY <2>1, <3>1, <4>1, <4>2, <4>4, SubSeqProperties
    <3> HIDE DEF part
    <3>3. /\ agents_file[k] = Start /\ agents_file[k + 1] = middle
          /\ agents_file[k + 2] = End
      BY <2>4 DEF HasBlock
    <3>4. k + 1 - 1 = k /\ k + 2 - 1 = k + 1 /\ k + 3 - 1 = k + 2
      OBVIOUS
    <3>5. part[1] = Start /\ part[2] = middle /\ part[3] = End
      BY <3>2, <3>3, <3>4
    <3>6. DOMAIN part = 1..3
      BY <3>2, LenProperties
    <3>7. Guidance(project) = <<Start, middle, End>>
      BY DEF Guidance
    <3> HIDE DEF middle
    <3>8. part = <<Start, middle, End>>
      <4>1. part = [i \in 1..3 |-> part[i]]
        BY <3>2, <3>6
      <4>2. QED
        BY <3>5, <4>1
    <3>9. QED
      BY <3>7, <3>8 DEF part
  <2>8. ASSUME intact
        PROVE  Cardinality(places) = 1
    <3>1. WellMarked(agents_file)
      BY <1>1, <2>8 DEF PIInv, TextIsSomewhere, GuidanceStays, Writing, Holds
    <3>2. agents_file[k + 1].kind = "guidance" /\ k + 1 \notin LinePlaces(agents_file)
      BY <2>4 DEF HasBlock, LinePlaces
    <3>3. PICK m \in Nat :
             /\ LinePlaces(agents_file) = DOMAIN agents_file \ (m..(m + 2))
             /\ agents_file[m] = Start /\ agents_file[m + 2] = End
      BY <2>1, <2>6, <3>1, <3>2, MarkedOnce
    <3>4. \A i \in places : i \in m..(m + 2) /\ i # m /\ i # m + 2
      BY <3>3, Markers DEF LinePlaces
    <3>5. \A i \in places : i = m + 1
      BY <3>4
    <3>6. k + 1 \in places
      BY <2>6, <3>2
    <3>7. places = {k + 1}
      BY <3>5, <3>6
    <3>8. QED
      BY <3>7, FS_Singleton
  <2>9. QED
    BY <2>2, <2>3, <2>6, <2>7, <2>8
<1>2. PIInv => GuidanceIsCurrent
  BY <1>1 DEF GuidanceIsCurrent
<1>3. QED
  BY <1>2, ProjectInductiveInvariant, PTL

(***************************************************************************)
(* `camp up` brings online the node that `camp announce` would, given the  *)
(* options of the init that wrote the config file, for any options         *)
(* (camp.rs:452-475,506-586,735-793).                                      *)
(***************************************************************************)
THEOREM UpAlwaysRepeatsAnnounce == ProjectSpec => []UpRepeatsAnnounce
<1>1. PIInv => UpRepeatsAnnounce
  BY DEF PIInv, AnnouncersRepeat, StandsFor, UpRepeatsAnnounce
<1>2. QED
  BY <1>1, ProjectInductiveInvariant, PTL

\* An observer that camp makes of the config file hears every agent of its
\* mesh (camp.rs:701-733, listener.rs:86-106).
LEMMA ObserverHears ==
    ASSUME NEW o \in Settled, Trim[o.id] # Fresh, NEW r \in Resolutions,
           SameMesh(o, r), NEW c, c = AnnouncedConfig(AnnounceSettings(o)),
           c # Invalid, NEW observer,
           observer = ObserverConfig(ResolveDiscovery(Written(ConfigOf(r)))),
           observer # Invalid
    PROVE  Hears(observer, c)
<1>1. /\ observer.agent_id = Fresh
      /\ observer.service_type = Trim[r.service_type]
      /\ observer.mdns_port = r.mdns_port /\ observer.auth = NodeAuth(r)
  BY ObserverIsConfig
<1>2. /\ c.agent_id = Trim[o.id] /\ c.service_type = Trim[o.service_type]
      /\ c.mdns_port = o.mdns_port /\ c.advertise = TRUE /\ c.auth = NodeAuth(o)
      /\ o.shared_secret # Unset => c.auth # Unset
  BY AnnouncedIsConfig
<1>3. r \in Settled
  BY MixturesAreSettled
<1>4. ASSUME observer.auth # Unset, observer.auth.mode = "sign-and-verify"
      PROVE  c.auth # Unset /\ c.auth.signing \in observer.auth.accepted
  <2>1. /\ r.shared_secret # Unset /\ r.shared_secret_mode = "sign-and-verify"
        /\ observer.auth.accepted = TrimmedSet(r.shared_secret_accept)
                                    \cup {Trim[r.shared_secret]}
    BY <1>1, <1>4 DEF NodeAuth
  <2>2. /\ o.shared_secret # Unset
        /\ Trim[o.shared_secret] \in observer.auth.accepted
    BY <2>1 DEF SameMesh
  <2>3. c.auth # Unset /\ c.auth.signing = Trim[o.shared_secret]
    BY <1>2, <2>2 DEF NodeAuth
  <2>4. QED
    BY <2>2, <2>3
<1>5. QED
  BY <1>1, <1>2, <1>4 DEF Hears, SameMesh

(***************************************************************************)
(* After an init that ran alone, the `camp who` of its guidance finds      *)
(* every agent of the project that shares the config file's mesh and whose *)
(* secret it accepts, however the names were padded                        *)
(* (camp.rs:588-600,795-820,1272-1290).                                    *)
(***************************************************************************)
THEOREM GuidanceAlwaysFindsAgents == ProjectSpec => []GuidanceFindsAgents
<1>1. ASSUME PIInv, complete,
             ObserverConfig(ResolveDiscovery(config_file)) # Invalid,
             NEW s \in Running, announcer[s].options # Unset,
             SameMesh(announcer[s].options, requested)
      PROVE  LET observer == ObserverConfig(ResolveDiscovery(config_file)) IN
             \E found \in RunList(Discovered(observer), WhoOf(requested.project)) :
                found.id = announcer[s].config.agent_id
  <2> DEFINE observer == ObserverConfig(ResolveDiscovery(config_file))
             c == announcer[s].config
             o == announcer[s].options
             agent == AgentInfo(c)
             who == WhoOf(requested.project)
  <2>1. requested \in Resolutions /\ config_file = Written(ConfigOf(requested))
    BY <1>1 DEF PIInv, GuidanceStays, ConfigInStep
  <2>2. /\ o \in Settled /\ Trim[o.id] # Fresh /\ c # Invalid
        /\ c = AnnouncedConfig(AnnounceSettings(o))
    BY <1>1 DEF PIInv, AnnouncersRepeat, StandsFor
  <2>3. Hears(observer, c) /\ c.project = Trim[o.project]
    <3> HIDE DEF c, o
    <3>1. SameMesh(o, requested)
      BY <1>1 DEF o
    <3>2. QED
      BY <1>1, <2>1, <2>2, <3>1, ObserverHears, AnnouncedIsConfig
  <2> HIDE DEF observer
  <2>4. agent \in Discovered(observer)
    BY <2>3 DEF Discovered
  <2>5. /\ agent.id = c.agent_id /\ agent.project = c.project
    BY DEF AgentInfo
  <2> HIDE DEF c, agent
  <2>6. /\ who.project = Trim[requested.project]
        /\ \A f \in SingleFilters \ {"project"} : who[f] = Unset
        /\ \A f \in RepeatedFilters : who[f] = {}
    BY DEF WhoOf, AnyAgent, SingleFilters, RepeatedFilters, ExactFields
  <2> HIDE DEF who
  <2>7. agent.project = who.project
    BY <1>1, <2>3, <2>5, <2>6 DEF SameMesh
  <2>8. MatchesFilters(agent, who)
    BY <2>6, <2>7
    DEF MatchesFilters, SingleFilters, RepeatedFilters, ExactFields
  <2>9. agent \in RunList(Discovered(observer), who)
    BY <2>4, <2>8 DEF RunList
  <2>10. QED
    BY <2>5, <2>9 DEF observer, who, c
<1>2. PIInv => GuidanceFindsAgents
  BY <1>1 DEF GuidanceFindsAgents
<1>3. QED
  BY <1>2, ProjectInductiveInvariant, PTL

\* camp list's filters are the library's queries (camp.rs:822-897,
\* registry.rs:197-312).
LEMMA ListIsLibrary ==
    ASSUME NEW agents, NEW f
    PROVE  RunList(agents, f) = LibraryList(agents, f)
<1>1. ASSUME NEW a \in agents
      PROVE  a \in RunList(agents, f) <=> a \in LibraryList(agents, f)
  <2>1. (\A g \in ExactFields : f[g] \in {Unset, a[g]})
          <=> \A g \in ExactFields :
                 f[g] # Unset => a \in GetAllBy(agents, g, f[g])
    BY <1>1 DEF GetAllBy
  <2>2. (f.capability # Unset => HasCapability(a, f.capability))
          <=> (f.capability # Unset =>
                 a \in GetAllWithCapability(agents, f.capability))
    BY <1>1 DEF GetAllWithCapability
  <2>3. (\A m \in f.metadata : Value(a, m.key) = m.value)
          <=> \A m \in f.metadata :
                 a \in GetAllByMetadata(agents, m.key, m.value)
    BY <1>1 DEF GetAllByMetadata
  <2>4. f.metadata_keys \subseteq Keys(a)
          <=> \A key \in f.metadata_keys :
                 a \in GetAllWithMetadataKey(agents, key)
    BY <1>1 DEF GetAllWithMetadataKey
  <2>5. (\A prefix \in f.metadata_key_prefixes :
            \E key \in Keys(a) : prefix \in PrefixesOf[key])
          <=> \A prefix \in f.metadata_key_prefixes :
                 a \in GetAllWithMetadataKeyPrefix(agents, prefix)
    BY <1>1 DEF GetAllWithMetadataKeyPrefix
  <2>6. (\A m \in f.metadata_prefixes :
            m.key \in Keys(a) /\ m.value \in PrefixesOf[a.metadata[m.key]])
          <=> \A m \in f.metadata_prefixes :
                 a \in GetAllByMetadataPrefix(agents, m.key, m.value)
    BY <1>1 DEF GetAllByMetadataPrefix
  <2>7. (\A m \in f.metadata_regexes : MatchesRegex(a, m))
          <=> \A m \in f.metadata_regexes :
                 LET result == GetAllByMetadataRegex(agents, m.key, m.value) IN
                 ~result.error /\ a \in result.found
    <3>1. ASSUME NEW m
          PROVE  MatchesRegex(a, m)
                   <=> LET result == GetAllByMetadataRegex(agents, m.key, m.value)
                       IN  ~result.error /\ a \in result.found
      BY <1>1 DEF MatchesRegex, GetAllByMetadataRegex
    <3>2. QED
      BY <3>1
  <2>8. QED
    BY <1>1, <2>1, <2>2, <2>3, <2>4, <2>5, <2>6, <2>7
    DEF RunList, LibraryList, MatchesFilters
<1>2. QED
  BY <1>1 DEF RunList, LibraryList

(***************************************************************************)
(* For every filter and whatever agents are online, camp list answers as   *)
(* the library's queries do, GET /agents as camp list but for a status     *)
(* that is not spelt as it is stored, and camp get as the query by id      *)
(* (camp.rs:822-932,1097-1106, registry.rs:197-312).                       *)
(***************************************************************************)
THEOREM AnswersAlwaysAgree == ProjectSpec => []AnswersAgree
<1>1. ASSUME PIInv, NEW f \in Filters
      PROVE  LET agents == {AgentInfo(announcer[s].config) : s \in Running} IN
             /\ RunList(agents, Parsed(f)) = LibraryList(agents, Parsed(f))
             /\ ListAgents(agents, f) =
                   IF f.status = Unset \/ ParseStatus(f.status) = f.status
                   THEN RunList(agents, Parsed(InQuery(f))) ELSE {}
             /\ RunGet(agents, f.id) = GetAllBy(agents, "id", f.id)
  <2> DEFINE agents == {AgentInfo(announcer[s].config) : s \in Running}
  <2>1. \A a \in agents : a.status \in Statuses
    <3>1. SUFFICES ASSUME NEW s \in Running
                   PROVE  AgentInfo(announcer[s].config).status \in Statuses
      OBVIOUS
    <3>2. announcer[s].config.status \in Statuses
      BY <1>1, AnnouncedIsConfig DEF PIInv, AnnouncersRepeat, StandsFor
    <3>3. QED
      BY <3>2 DEF AgentInfo
  <2> HIDE DEF agents
  <2>2. ASSUME ~(f.status = Unset \/ ParseStatus(f.status) = f.status)
        PROVE  ListAgents(agents, f) = {}
    <3>1. \A t \in Statuses : ParseStatus(t) = t
      BY QueryAssumption, ConfigTextAssumption DEF ParseStatus
    <3>2. \A a \in agents : a.status # f.status
      BY <2>1, <2>2, <3>1
    <3>3. "status" \in ExactFields
      BY DEF ExactFields
    <3>4. \A a \in agents : ~MatchesAgentQuery(a, f)
      BY <2>2, <3>2, <3>3 DEF MatchesAgentQuery
    <3>5. QED
      BY <3>4 DEF ListAgents
  <2>3. ASSUME f.status = Unset \/ ParseStatus(f.status) = f.status
        PROVE  ListAgents(agents, f) = RunList(agents, Parsed(InQuery(f)))
    <3> DEFINE asked == InQuery(f)
               q == Parsed(asked)
    <3>1. /\ DOMAIN asked = SingleFilters \cup RepeatedFilters
          /\ \A g \in SingleFilters : asked[g] = f[g]
          /\ \A g \in RepeatedFilters : asked[g] = {}
      <4>1. DOMAIN f = SingleFilters \cup RepeatedFilters
        BY FilterAssumption DEF AnyAgent
      <4>2. SingleFilters \cap RepeatedFilters = {}
        BY DEF SingleFilters, RepeatedFilters, ExactFields
      <4>3. QED
        BY <4>1, <4>2 DEF InQuery
    <3> HIDE DEF asked
    <3>2. (IF asked.status = Unset THEN Unset ELSE ParseStatus(asked.status))
            = asked.status
      BY <2>3, <3>1 DEF SingleFilters, ExactFields
    <3>3. q = [asked EXCEPT !.status = asked.status, !.metadata = {},
                            !.metadata_prefixes = {}, !.metadata_regexes = {}]
      <4>1. /\ asked.metadata = {} /\ asked.metadata_prefixes = {}
            /\ asked.metadata_regexes = {}
        BY <3>1 DEF RepeatedFilters
      <4>2. /\ {ParseKeyValue(m) : m \in asked.metadata} = {}
            /\ {ParseKeyValue(m) : m \in asked.metadata_prefixes} = {}
            /\ {ParseKeyValue(m) : m \in asked.metadata_regexes} = {}
        BY <4>1
      <4>3. QED
        BY <3>2, <4>2 DEF Parsed
    <3> HIDE DEF q
    <3>4. \A g \in ExactFields : q[g] = f[g]
      BY <3>1, <3>3 DEF SingleFilters, ExactFields
    <3>5. /\ q.capability = f.capability /\ q.metadata = {}
          /\ q.metadata_keys = {} /\ q.metadata_key_prefixes = {}
          /\ q.metadata_prefixes = {} /\ q.metadata_regexes = {}
      BY <3>1, <3>3 DEF SingleFilters, RepeatedFilters
    <3>6. \A a \in agents : MatchesAgentQuery(a, f) <=> MatchesFilters(a, q)
      BY <3>4, <3>5 DEF MatchesAgentQuery, MatchesFilters
    <3>7. ListAgents(agents, f) = RunList(agents, q)
      BY <3>6 DEF ListAgents, RunList
    <3>8. QED
      BY <3>7 DEF q, asked
  <2>4. RunGet(agents, f.id) = GetAllBy(agents, "id", f.id)
    BY DEF RunGet, GetAllBy
  <2>5. QED
    BY <2>2, <2>3, <2>4, ListIsLibrary DEF agents
<1>2. PIInv => AnswersAgree
  BY <1>1 DEF AnswersAgree
<1>3. QED
  BY <1>2, ProjectInductiveInvariant, PTL
=============================================================================
