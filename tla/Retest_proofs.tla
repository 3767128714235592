---------------------------- MODULE Retest_proofs ----------------------------
(***************************************************************************)
(* Proofs about Retest and the functions of Findings it is built from:     *)
(* what a merged finding keeps, what a pass of the deduplication keeps,    *)
(* what the score counts, and what the comparison says of two audits,      *)
(* whatever weaknesses the engines report.                                 *)
(***************************************************************************)
EXTENDS Retest, TLAPS, FiniteSetTheorems, WellFoundedInduction

LEMMA Least ==
    ASSUME NEW T \in SUBSET Nat, T # {}
    PROVE  /\ Min(T) \in T
           /\ \A m \in T : Min(T) <= m
<1> DEFINE R == OpToRel(<, Nat)
<1>1. IsWellFoundedOn(R, Nat)
    BY NatLessThanWellFounded
<1>2. \A m, n \in Nat : m < n => <<m, n>> \in R
    BY DEF OpToRel
<1> HIDE DEF R
<1>3. PICK n \in T : \A m \in T : <<m, n>> \notin R
    BY <1>1, WFMin
<1>4. ASSUME NEW m \in T PROVE n <= m
  <2>1. m \in Nat /\ n \in Nat /\ ~(m < n)
      BY <1>2, <1>3
  <2>2. QED
      BY <2>1
<1>5. QED
    BY <1>4 DEF Min

(* Ranks *)

Severities  == {"Critical", "High", "Medium", "Low", "Info"}
Confidences == {"Confirmed", "High", "Medium", "Low", "Potential"}

LEMMA Scales ==
    /\ ToSet(SEVERITIES) = Severities /\ ToSet(CONFIDENCES) = Confidences
    /\ DOMAIN SEVERITIES = 1..5 /\ DOMAIN CONFIDENCES = 1..5 /\ DOMAIN Alphabetic = 1..5
BY DEF SEVERITIES, CONFIDENCES, Severities, Confidences, ToSet, Alphabetic

LEMMA SeverityRank ==
    ASSUME NEW s \in Severities
    PROVE  /\ severity_rank(s) \in 1..5 /\ SEVERITIES[severity_rank(s)] = s
           /\ AsString(s) \in 1..5 /\ Alphabetic[AsString(s)] = s
<1>1. \E i \in DOMAIN SEVERITIES : SEVERITIES[i] = s
    BY Scales DEF ToSet
<1>2. \E i \in DOMAIN Alphabetic : Alphabetic[i] = s
    BY Scales DEF Alphabetic, Severities
<1>3. QED
    BY <1>1, <1>2, Scales DEF severity_rank, AsString

LEMMA ConfidenceRank ==
    ASSUME NEW c \in Confidences
    PROVE  confidence_rank(c) \in 1..5 /\ CONFIDENCES[confidence_rank(c)] = c
<1>1. \E i \in DOMAIN CONFIDENCES : CONFIDENCES[i] = c
    BY Scales DEF ToSet
<1>2. QED
    BY <1>1, Scales DEF confidence_rank

LEMMA WorstSeverity ==
    ASSUME NEW S \in SUBSET Severities, S # {}
    PROVE  /\ worst_severity(S) \in S
           /\ \A s \in S : severity_rank(worst_severity(S)) <= severity_rank(s)
<1> DEFINE Ranks == {severity_rank(s) : s \in S}
<1>1. Ranks \in SUBSET Nat /\ Ranks # {}
    BY SeverityRank
<1>2. PICK s \in S : Min(Ranks) = severity_rank(s) /\ \A r \in Ranks : Min(Ranks) <= r
    BY <1>1, Least
<1>3. worst_severity(S) = s
    BY <1>2, SeverityRank DEF worst_severity
<1>4. QED
    BY <1>2, <1>3

LEMMA StrongestConfidence ==
    ASSUME NEW C \in SUBSET Confidences, C # {}
    PROVE  /\ strongest_confidence(C) \in C
           /\ \A c \in C : confidence_rank(strongest_confidence(C)) <= confidence_rank(c)
<1> DEFINE Ranks == {confidence_rank(c) : c \in C}
<1>1. Ranks \in SUBSET Nat /\ Ranks # {}
    BY ConfidenceRank
<1>2. PICK c \in C : Min(Ranks) = confidence_rank(c) /\ \A r \in Ranks : Min(Ranks) <= r
    BY <1>1, Least
<1>3. strongest_confidence(C) = c
    BY <1>2, ConfidenceRank DEF strongest_confidence
<1>4. QED
    BY <1>2, <1>3

(* Merge *)

Found == [key : STRING \X Nat, cwe : SUBSET STRING, reqs : SUBSET Requirements,
          sources : SUBSET Sources, evs : SUBSET Nat, file : STRING, line : Nat,
          severity : Severities, confidence : Confidences]

LEMMA ElementsOf ==
    ASSUME NEW T, NEW s \in Seq(T)
    PROVE  /\ DOMAIN s = 1..Len(s) /\ Len(s) \in Nat
           /\ ToSet(s) \subseteq T
           /\ \A i \in DOMAIN s : s[i] \in T /\ s[i] \in ToSet(s)
           /\ s # <<>> => 1 \in DOMAIN s /\ s[1] \in ToSet(s)
BY DEF ToSet

LEMMA SequenceOf ==
    ASSUME NEW T, NEW n \in Nat, NEW s, s = [i \in 1..n |-> s[i]],
           \A i \in 1..n : s[i] \in T
    PROVE  s \in Seq(T) /\ Len(s) = n
OBVIOUS

\* The item the others are merged into is one of them.
LEMMA BaseOfItems ==
    ASSUME NEW items \in Seq(Found), items # <<>>
    PROVE  Base(items) \in ToSet(items)
<1> DEFINE all == ToSet(items)
           Before(f, g) ==
               \/ confidence_rank(f.confidence) < confidence_rank(g.confidence)
               \/ /\ f.confidence = g.confidence
                  /\ AsString(f.severity) <= AsString(g.severity)
           Best == {confidence_rank(f.confidence) : f \in all}
<1>1. \A f \in all : /\ f.confidence \in Confidences /\ f.severity \in Severities
                     /\ confidence_rank(f.confidence) \in Nat
                     /\ AsString(f.severity) \in Nat
  <2>1. all \subseteq Found
      BY ElementsOf
  <2>2. \A f \in all : f.confidence \in Confidences /\ f.severity \in Severities
      BY <2>1 DEF Found
  <2>3. QED
      BY <2>2, ConfidenceRank, SeverityRank
<1>2. PICK f \in all : \A g \in all :
          confidence_rank(f.confidence) <= confidence_rank(g.confidence)
  <2>1. Best \in SUBSET Nat /\ Best # {}
      BY <1>1, ElementsOf
  <2>2. Min(Best) \in Best /\ \A m \in Best : Min(Best) <= m
      BY <2>1, Least
  <2>3. QED
      BY <2>2
<1> DEFINE Names == {AsString(g.severity) : g \in {h \in all : h.confidence = f.confidence}}
<1>3. PICK h \in all : /\ h.confidence = f.confidence
                       /\ \A g \in all : g.confidence = f.confidence =>
                             AsString(h.severity) <= AsString(g.severity)
  <2>1. Names \in SUBSET Nat /\ Names # {}
      BY <1>1
  <2>2. Min(Names) \in Names /\ \A m \in Names : Min(Names) <= m
      BY <2>1, Least
  <2>3. QED
      BY <2>2
<1>4. ASSUME NEW g \in all PROVE Before(h, g)
  <2>1. CASE g.confidence = f.confidence
      BY <2>1, <1>3
  <2>2. CASE g.confidence # f.confidence
    <3>1. confidence_rank(g.confidence) # confidence_rank(f.confidence)
        BY <2>2, <1>1, ConfidenceRank
    <3>2. QED
        BY <3>1, <1>1, <1>2, <1>3
  <2>3. QED
      BY <2>1, <2>2
<1> DEFINE I == {i \in 1..Len(items) : \A g \in all : Before(items[i], g)}
<1>5. I # {} /\ I \in SUBSET Nat
  <2>1. PICK i \in 1..Len(items) : items[i] = h
      BY <1>3, ElementsOf DEF ToSet
  <2> HIDE DEF Before
  <2>2. i \in I
      BY <1>4, <2>1
  <2>3. QED
      BY <2>2
<1>6. Base(items) = items[Min(I)]
    BY <1>5 DEF Base, SelectInSeq
<1>7. Min(I) \in 1..Len(items)
    BY <1>5, Least
<1>8. QED
    BY <1>6, <1>7, ElementsOf

LEMMA FirstKnown ==
    ASSUME NEW items \in Seq(Found)
    PROVE  /\ IF \A f \in ToSet(items) : f.file = NoFile
              THEN FirstFile(items) = NoFile
              ELSE \E i \in DOMAIN items :
                      /\ items[i].file # NoFile /\ FirstFile(items) = items[i].file
                      /\ \A j \in DOMAIN items : items[j].file # NoFile => i <= j
           /\ IF \A f \in ToSet(items) : f.line = NoLine
              THEN FirstLine(items) = NoLine
              ELSE \E i \in DOMAIN items :
                      /\ items[i].line # NoLine /\ FirstLine(items) = items[i].line
                      /\ \A j \in DOMAIN items : items[j].line # NoLine => i <= j
<1> DEFINE I == {i \in 1..Len(items) : items[i].file # NoFile}
           J == {i \in 1..Len(items) : items[i].line # NoLine}
<1>1. I \in SUBSET Nat /\ J \in SUBSET Nat /\ DOMAIN items = 1..Len(items)
    BY ElementsOf
<1>2. I # {} => Min(I) \in I /\ \A j \in I : Min(I) <= j
    BY <1>1, Least
<1>3. J # {} => Min(J) \in J /\ \A j \in J : Min(J) <= j
    BY <1>1, Least
<1>4. \A i \in I : i # 0
    BY <1>1
<1>5. \A i \in J : i # 0
    BY <1>1
<1>6. FirstFile(items) = IF I = {} THEN NoFile ELSE items[Min(I)].file
    BY <1>2, <1>4 DEF FirstFile, SelectInSeq
<1>7. FirstLine(items) = IF J = {} THEN NoLine ELSE items[Min(J)].line
    BY <1>3, <1>5 DEF FirstLine, SelectInSeq
<1>8. (I = {} <=> \A f \in ToSet(items) : f.file = NoFile)
      /\ (J = {} <=> \A f \in ToSet(items) : f.line = NoLine)
    BY <1>1 DEF ToSet
<1> HIDE DEF I, J
<1>9. \A j \in DOMAIN items : (items[j].file # NoFile => j \in I) /\ (items[j].line # NoLine => j \in J)
    BY <1>1 DEF I, J
<1>10. \A j \in I : j \in DOMAIN items /\ items[j].file # NoFile
    BY <1>1 DEF I
<1>11. \A j \in J : j \in DOMAIN items /\ items[j].line # NoLine
    BY <1>1 DEF J
<1>12. IF \A f \in ToSet(items) : f.file = NoFile
       THEN FirstFile(items) = NoFile
       ELSE \E i \in DOMAIN items :
               /\ items[i].file # NoFile /\ FirstFile(items) = items[i].file
               /\ \A j \in DOMAIN items : items[j].file # NoFile => i <= j
    BY <1>2, <1>6, <1>8, <1>9, <1>10
<1>13. IF \A f \in ToSet(items) : f.line = NoLine
       THEN FirstLine(items) = NoLine
       ELSE \E i \in DOMAIN items :
               /\ items[i].line # NoLine /\ FirstLine(items) = items[i].line
               /\ \A j \in DOMAIN items : items[j].line # NoLine => i <= j
    BY <1>3, <1>7, <1>8, <1>9, <1>11
<1>14. QED
    BY <1>12, <1>13

\* m keeps f: all its evidence and requirements, and it is as severe and as
\* certain at least.
Keeps(m, f) ==
    /\ f.evs \subseteq m.evs /\ f.reqs \subseteq m.reqs
    /\ severity_rank(m.severity) <= severity_rank(f.severity)
    /\ confidence_rank(m.confidence) <= confidence_rank(f.confidence)

LEMMA MergeKeeps ==
    ASSUME NEW items \in Seq(Found), items # <<>>
    PROVE  /\ Merge(items) \in Found
           /\ Merge(items).evs = UNION {f.evs : f \in ToSet(items)}
           /\ Merge(items).cwe = UNION {f.cwe : f \in ToSet(items)}
           /\ Merge(items).file = FirstFile(items) /\ Merge(items).line = FirstLine(items)
           /\ \A f \in ToSet(items) : Keeps(Merge(items), f)
           /\ \E f \in ToSet(items) : Merge(items).key = f.key
<1> DEFINE all == ToSet(items)
           Ss == {f.severity : f \in all}
           Cs == {f.confidence : f \in all}
           m == Merge(items)
<1>1. all \subseteq Found /\ all # {}
    BY ElementsOf
<1>2. \A f \in all : /\ f.severity \in Severities /\ f.confidence \in Confidences
                     /\ f.key \in STRING \X Nat /\ f.cwe \in SUBSET STRING
                     /\ f.reqs \in SUBSET Requirements /\ f.sources \in SUBSET Sources
                     /\ f.evs \in SUBSET Nat /\ f.file \in STRING /\ f.line \in Nat
    BY <1>1 DEF Found
<1>3. worst_severity(Ss) \in Ss /\ \A s \in Ss : severity_rank(worst_severity(Ss)) <= severity_rank(s)
  <2>1. Ss \in SUBSET Severities /\ Ss # {}
      BY <1>1, <1>2
  <2>2. QED
      BY <2>1, WorstSeverity
<1>4. strongest_confidence(Cs) \in Cs
      /\ \A c \in Cs : confidence_rank(strongest_confidence(Cs)) <= confidence_rank(c)
  <2>1. Cs \in SUBSET Confidences /\ Cs # {}
      BY <1>1, <1>2
  <2>2. QED
      BY <2>1, StrongestConfidence
<1>5. Base(items) \in all
    BY BaseOfItems
<1>6. FirstFile(items) \in STRING /\ FirstLine(items) \in Nat
  <2>1. \A i \in DOMAIN items : items[i].file \in STRING /\ items[i].line \in Nat
      BY <1>2, ElementsOf
  <2>2. \A f \in all : f.file = NoFile => NoFile \in STRING
      BY <1>2
  <2>3. NoLine \in Nat
      BY DEF NoLine
  <2>4. QED
      BY <1>1, <2>1, <2>2, <2>3, FirstKnown
<1>7. /\ m.key = Base(items).key /\ m.cwe = UNION {f.cwe : f \in all}
      /\ m.reqs = UNION {f.reqs : f \in all} /\ m.sources = UNION {f.sources : f \in all}
      /\ m.evs = UNION {f.evs : f \in all}
      /\ m.file = FirstFile(items) /\ m.line = FirstLine(items)
      /\ m.severity = worst_severity(Ss) /\ m.confidence = strongest_confidence(Cs)
    BY DEF Merge
<1>8. m \in Found
  <2>1. /\ Base(items).key \in STRING \X Nat /\ UNION {f.cwe : f \in all} \in SUBSET STRING
        /\ UNION {f.reqs : f \in all} \in SUBSET Requirements
        /\ UNION {f.sources : f \in all} \in SUBSET Sources
        /\ UNION {f.evs : f \in all} \in SUBSET Nat
      BY <1>2, <1>5
  <2>2. worst_severity(Ss) \in Severities /\ strongest_confidence(Cs) \in Confidences
      BY <1>2, <1>3, <1>4
  <2>3. QED
      BY <1>6, <2>1, <2>2 DEF Merge, Found
<1> HIDE DEF m
<1>9. ASSUME NEW f \in all PROVE Keeps(m, f)
    BY <1>3, <1>4, <1>7 DEF Keeps
<1>10. QED
    BY <1>5, <1>7, <1>8, <1>9 DEF m

\* Where one of the findings has a file and one a line, each has both or
\* neither.
Placed(f, g) ==
    f.file # NoFile /\ g.line # NoLine => f.line # NoLine /\ g.file # NoFile

LEMMA MergePlace ==
    ASSUME NEW items \in Seq(Found), items # <<>>,
           \A f, g \in ToSet(items) : Placed(f, g)
    PROVE  \E f \in ToSet(items) :
              FirstFile(items) = f.file /\ FirstLine(items) = f.line
<1>1. \A i \in DOMAIN items : items[i] \in ToSet(items) /\ i \in Nat
    BY ElementsOf
<1>2. CASE \A f \in ToSet(items) : f.file = NoFile
  <2>1. CASE \A f \in ToSet(items) : f.line = NoLine
      BY <1>2, <2>1, FirstKnown, ElementsOf
  <2>2. CASE \E f \in ToSet(items) : f.line # NoLine
    <3>1. PICK j \in DOMAIN items : FirstLine(items) = items[j].line
        BY <2>2, FirstKnown
    <3>2. QED
        BY <1>1, <1>2, <3>1, FirstKnown
  <2>3. QED
      BY <2>1, <2>2
<1>3. CASE \E f \in ToSet(items) : f.file # NoFile
  <2>1. PICK i \in DOMAIN items :
            /\ items[i].file # NoFile /\ FirstFile(items) = items[i].file
            /\ \A j \in DOMAIN items : items[j].file # NoFile => i <= j
      BY <1>3, FirstKnown
  <2>2. CASE \A f \in ToSet(items) : f.line = NoLine
      BY <1>1, <2>1, <2>2, FirstKnown
  <2>3. CASE \E f \in ToSet(items) : f.line # NoLine
    <3>1. PICK j \in DOMAIN items :
              /\ items[j].line # NoLine /\ FirstLine(items) = items[j].line
              /\ \A k \in DOMAIN items : items[k].line # NoLine => j <= k
        BY <2>3, FirstKnown
    <3>2. items[i].line # NoLine /\ items[j].file # NoFile
        BY <1>1, <2>1, <3>1 DEF Placed
    <3>3. i = j
        BY <1>1, <2>1, <3>1, <3>2
    <3>4. QED
        BY <1>1, <2>1, <3>1, <3>3
  <2>4. QED
      BY <2>2, <2>3
<1>4. QED
    BY <1>2, <1>3

(* Grouping *)

\* The groups exist, and each finding is placed into those of the findings
\* before it.
LEMMA Grouping ==
    ASSUME NEW T, NEW fs \in Seq(T), NEW pass
    PROVE  \E g : /\ Grouped(fs, pass) = g[Len(fs)]
                  /\ g[0] = <<>>
                  /\ \A n \in 1..Len(fs) : g[n] = Place(g[n - 1], fs[n], pass)
<1> DEFINE Step(g, n) == IF n = 0 THEN <<>> ELSE Place(g[n - 1], fs[n], pass)
           P(k) == \E g : g = [n \in 0..k |-> Step(g, n)]
<1>1. P(0)
  <2> DEFINE g == [n \in 0..0 |-> <<>>]
  <2>1. \A n \in 0..0 : g[n] = Step(g, n)
      OBVIOUS
  <2>2. g = [n \in 0..0 |-> Step(g, n)]
    <3>1. g = [n \in 0..0 |-> g[n]]
        OBVIOUS
    <3> HIDE DEF g, Step
    <3>2. QED
        BY <2>1, <3>1
  <2>3. QED
      BY <2>2
<1>2. ASSUME NEW k \in Nat, P(k) PROVE P(k + 1)
  <2>1. PICK g : g = [n \in 0..k |-> Step(g, n)]
      BY <1>2
  <2> DEFINE h == [n \in 0..k + 1 |-> IF n = k + 1 THEN Place(g[k], fs[k + 1], pass) ELSE g[n]]
  <2>2. \A n \in 0..k : g[n] = Step(g, n)
    <3> HIDE DEF Step
    <3>1. QED
        BY <2>1
  <2>3. ASSUME NEW n \in 0..k + 1 PROVE h[n] = Step(h, n)
    <3>1. CASE n = k + 1
      <4>1. h[n - 1] = g[k] /\ n # 0
          BY <3>1
      <4>2. QED
          BY <3>1, <4>1
    <3>2. CASE n \in 1..k
      <4>1. h[n] = g[n] /\ h[n - 1] = g[n - 1] /\ n # 0 /\ n \in 0..k
          BY <3>2
      <4>2. QED
          BY <2>2, <4>1
    <3>3. CASE n = 0
      <4>1. h[0] = g[0]
          OBVIOUS
      <4>2. QED
          BY <2>2, <3>3, <4>1
    <3>4. QED
        BY <3>1, <3>2, <3>3
  <2>4. h = [n \in 0..k + 1 |-> h[n]]
      OBVIOUS
  <2>5. h = [n \in 0..k + 1 |-> Step(h, n)]
    <3> HIDE DEF h, Step
    <3>1. QED
        BY <2>3, <2>4
  <2>6. QED
      BY <2>5
<1> HIDE DEF P
<1>3. \A k \in Nat : P(k)
  <2> DEFINE F == {k \in Nat : ~P(k)}
  <2>1. CASE F # {}
    <3>1. Min(F) \in F /\ \A m \in F : Min(F) <= m
        BY <2>1, Least
    <3>2. PICK k \in F : \A m \in F : k <= m
        BY <3>1
    <3>3. k \in Nat /\ k # 0 /\ ~P(k)
        BY <1>1, <3>2
    <3>4. k - 1 \in Nat /\ k - 1 \notin F
        BY <3>2, <3>3
    <3>5. P(k - 1) /\ (k - 1) + 1 = k
        BY <3>3, <3>4
    <3>6. QED
        BY <1>2, <3>3, <3>4, <3>5
  <2>2. QED
      BY <2>1
<1>4. PICK k \in Nat : k = Len(fs)
    OBVIOUS
<1> DEFINE g == CHOOSE g : g = [n \in 0..Len(fs) |-> Step(g, n)]
<1>5. g = [n \in 0..Len(fs) |-> Step(g, n)]
  <2>1. \E x : x = [n \in 0..Len(fs) |-> Step(x, n)]
      BY <1>3, <1>4 DEF P
  <2> HIDE DEF Step
  <2>2. QED
      BY <2>1
<1>6. Grouped(fs, pass) = g[Len(fs)]
    BY DEF Grouped
<1> HIDE DEF g
<1>7. \A n \in 0..k : g[n] = Step(g, n)
  <2> HIDE DEF Step
  <2>1. QED
      BY <1>4, <1>5
<1>8. g[0] = <<>>
    BY <1>7
<1>9. \A n \in 1..Len(fs) : g[n] = Place(g[n - 1], fs[n], pass)
    BY <1>4, <1>7
<1>10. QED
    BY <1>6, <1>8, <1>9

\* The groups G of the first n findings: each of these is in one, no finding
\* is in two, a group is of the findings that join its first one, and no
\* group's first finding joins an earlier group.
Groups(T, fs, pass, G, n) ==
    /\ G \in Seq(Seq(T))
    /\ \A i \in DOMAIN G : G[i] # <<>>
    /\ \A k \in 1..n : \E i \in DOMAIN G : fs[k] \in ToSet(G[i])
    /\ \A i \in DOMAIN G : \A f \in ToSet(G[i]) :
          /\ \E k \in 1..n : f = fs[k]
          /\ f = G[i][1] \/ Joins(f, G[i][1], pass)
    /\ \A i, j \in DOMAIN G : i # j =>
          \A f \in ToSet(G[i]), g \in ToSet(G[j]) :
             \E k, l \in 1..n : k # l /\ f = fs[k] /\ g = fs[l]
    /\ \A i, j \in DOMAIN G : i < j => ~Joins(G[j][1], G[i][1], pass)

LEMMA AppendTo ==
    ASSUME NEW T, NEW s \in Seq(T), NEW x \in T
    PROVE  /\ Append(s, x) \in Seq(T) /\ Append(s, x) # <<>>
           /\ ToSet(Append(s, x)) = ToSet(s) \union {x}
           /\ IF s = <<>> THEN Append(s, x)[1] = x ELSE Append(s, x)[1] = s[1]
<1>1. /\ Append(s, x) \in Seq(T) /\ Len(s) \in Nat
      /\ DOMAIN Append(s, x) = 1..Len(s) + 1 /\ DOMAIN s = 1..Len(s)
      /\ \A i \in 1..Len(s) : Append(s, x)[i] = s[i]
      /\ Append(s, x)[Len(s) + 1] = x
    OBVIOUS
<1>2. ToSet(Append(s, x)) = ToSet(s) \union {x}
  <2>1. \A i \in 1..Len(s) + 1 : i \in 1..Len(s) \/ i = Len(s) + 1
      BY <1>1
  <2>2. \A i \in 1..Len(s) : i \in 1..Len(s) + 1
      BY <1>1
  <2>3. Len(s) + 1 \in 1..Len(s) + 1
      BY <1>1
  <2>4. ToSet(Append(s, x)) \subseteq ToSet(s) \union {x}
      BY <1>1, <2>1 DEF ToSet
  <2>5. ToSet(s) \union {x} \subseteq ToSet(Append(s, x))
    <3>1. x \in ToSet(Append(s, x))
        BY <1>1, <2>3 DEF ToSet
    <3>2. ToSet(s) \subseteq ToSet(Append(s, x))
        BY <1>1, <2>2 DEF ToSet
    <3>3. QED
        BY <3>1, <3>2
  <2>6. QED
      BY <2>4, <2>5
<1>3. s # <<>> => 1 \in 1..Len(s)
    OBVIOUS
<1>4. s = <<>> => Len(s) + 1 = 1
    OBVIOUS
<1>5. Append(s, x) # <<>>
    BY Len(Append(s, x)) = Len(s) + 1, <1>1
<1>6. QED
    BY <1>1, <1>2, <1>3, <1>4, <1>5

LEMMA PlaceKeeps ==
    ASSUME NEW T, NEW fs \in Seq(T), NEW pass, NEW G, NEW n \in 1..Len(fs),
           Groups(T, fs, pass, G, n - 1)
    PROVE  Groups(T, fs, pass, Place(G, fs[n], pass), n)
<1> DEFINE x == fs[n]
           H == Place(G, x, pass)
           I == {i \in 1..Len(G) : Joins(x, G[i][1], pass)}
<1>1. /\ G \in Seq(Seq(T)) /\ Len(G) \in Nat /\ DOMAIN G = 1..Len(G)
      /\ \A i \in DOMAIN G : G[i] \in Seq(T) /\ G[i] # <<>> /\ G[i][1] \in ToSet(G[i])
    BY ElementsOf DEF Groups
<1>2. x \in T
    OBVIOUS
<1>3. \A k \in 1..n - 1 : k \in 1..n /\ k # n
    OBVIOUS
<1>4. \A k \in 1..n : k \in 1..n - 1 \/ k = n
    OBVIOUS
<1>5. n \in 1..n
    OBVIOUS
<1>6. /\ \A k \in 1..n - 1 : \E i \in DOMAIN G : fs[k] \in ToSet(G[i])
      /\ \A i \in DOMAIN G : \A f \in ToSet(G[i]) :
            (\E k \in 1..n - 1 : f = fs[k]) /\ (f = G[i][1] \/ Joins(f, G[i][1], pass))
      /\ \A i, j \in DOMAIN G : i # j => \A f \in ToSet(G[i]), g \in ToSet(G[j]) :
            \E k, l \in 1..n - 1 : k # l /\ f = fs[k] /\ g = fs[l]
      /\ \A i, j \in DOMAIN G : i < j => ~Joins(G[j][1], G[i][1], pass)
    BY DEF Groups
<1>7. CASE I = {}
  <2>1. H = Append(G, <<x>>)
      BY <1>7 DEF Place, SelectInSeq
  <2>2. /\ <<x>> \in Seq(T) /\ <<x>> # <<>> /\ <<x>>[1] = x /\ ToSet(<<x>>) = {x}
      BY <1>2 DEF ToSet
  <2> DEFINE m == Len(G) + 1
  <2>3. /\ H \in Seq(Seq(T)) /\ DOMAIN H = 1..m /\ H[m] = <<x>>
        /\ \A i \in DOMAIN G : H[i] = G[i]
      BY <1>1, <2>1, <2>2
  <2>4. \A i \in DOMAIN H : i \in DOMAIN G \/ i = m
      BY <1>1, <2>3
  <2>5. \A i \in DOMAIN G : i \in DOMAIN H /\ i < m
      BY <1>1, <2>3
  <2>6. m \in DOMAIN H /\ m \notin DOMAIN G /\ \A i \in DOMAIN H : ~(m < i)
      BY <1>1, <2>3
  <2> HIDE DEF H, m, x
  <2>7. \A i \in DOMAIN H : H[i] # <<>>
      BY <1>1, <2>2, <2>3, <2>4
  <2>8. \A k \in 1..n : \E i \in DOMAIN H : fs[k] \in ToSet(H[i])
      BY <1>4, <1>6, <2>2, <2>3, <2>5, <2>6 DEF x
  <2>9. ASSUME NEW i \in DOMAIN H, NEW f \in ToSet(H[i])
        PROVE  (\E k \in 1..n : f = fs[k]) /\ (f = H[i][1] \/ Joins(f, H[i][1], pass))
    <3>1. CASE i = m
        BY <1>5, <2>2, <2>3, <2>9, <3>1 DEF x
    <3>2. CASE i \in DOMAIN G
      <4>1. H[i] = G[i]
          BY <2>3, <3>2
      <4>2. QED
          BY <1>3, <1>6, <2>9, <3>2, <4>1
    <3>3. QED
        BY <2>4, <3>1, <3>2
  <2>10. ASSUME NEW i \in DOMAIN H, NEW j \in DOMAIN H, i # j,
                NEW f \in ToSet(H[i]), NEW g \in ToSet(H[j])
         PROVE  \E k, l \in 1..n : k # l /\ f = fs[k] /\ g = fs[l]
    <3>1. CASE i \in DOMAIN G /\ j \in DOMAIN G
      <4>1. f \in ToSet(G[i]) /\ g \in ToSet(G[j])
          BY <2>3, <3>1
      <4>2. \E k, l \in 1..n - 1 : k # l /\ f = fs[k] /\ g = fs[l]
          BY <1>6, <2>10, <3>1, <4>1
      <4>3. QED
          BY <1>3, <4>2
    <3>2. CASE i \in DOMAIN G /\ j = m
      <4>1. f \in ToSet(G[i]) /\ g = x
          BY <2>2, <2>3, <3>2
      <4>2. \E k \in 1..n - 1 : f = fs[k]
          BY <1>6, <3>2, <4>1
      <4>3. QED
          BY <1>3, <1>5, <4>1, <4>2 DEF x
    <3>3. CASE i = m /\ j \in DOMAIN G
      <4>1. g \in ToSet(G[j]) /\ f = x
          BY <2>2, <2>3, <3>3
      <4>2. \E k \in 1..n - 1 : g = fs[k]
          BY <1>6, <3>3, <4>1
      <4>3. QED
          BY <1>3, <1>5, <4>1, <4>2 DEF x
    <3>4. QED
        BY <2>4, <2>10, <3>1, <3>2, <3>3
  <2>11. ASSUME NEW i \in DOMAIN H, NEW j \in DOMAIN H, i < j
         PROVE  ~Joins(H[j][1], H[i][1], pass)
    <3>1. CASE i \in DOMAIN G /\ j \in DOMAIN G
        BY <1>6, <2>3, <2>11, <3>1
    <3>2. CASE i \in DOMAIN G /\ j = m
      <4>1. H[j][1] = x /\ H[i] = G[i] /\ i \notin I
          BY <1>7, <2>2, <2>3, <3>2
      <4>2. QED
          BY <1>1, <3>2, <4>1
    <3>3. QED
      <4>1. i # m
          BY <2>6, <2>11
      <4>2. QED
          BY <2>4, <3>1, <3>2, <4>1
  <2>12. Groups(T, fs, pass, H, n)
      BY <2>3, <2>7, <2>8, <2>9, <2>10, <2>11 DEF Groups
  <2>13. QED
      BY <2>12 DEF H, x
<1>8. CASE I # {}
  <2> DEFINE p == Min(I)
  <2>1. p \in DOMAIN G /\ Joins(x, G[p][1], pass)
    <3>1. I \in SUBSET Nat
        BY <1>1
    <3>2. p \in I
        BY <1>8, <3>1, Least
    <3>3. QED
        BY <1>1, <3>2
  <2>2. H = [G EXCEPT ![p] = Append(G[p], x)]
    <3>1. p # 0
        BY <1>1, <2>1
    <3>2. SelectInSeq(G, LAMBDA g : Joins(x, g[1], pass)) = p
        BY <1>8 DEF SelectInSeq
    <3>3. QED
        BY <3>1, <3>2 DEF Place
  <2>3. /\ Append(G[p], x) \in Seq(T) /\ Append(G[p], x) # <<>>
        /\ ToSet(Append(G[p], x)) = ToSet(G[p]) \union {x}
        /\ Append(G[p], x)[1] = G[p][1]
    <3>1. G[p] \in Seq(T) /\ G[p] # <<>>
        BY <1>1, <2>1
    <3> HIDE DEF p, x
    <3>2. QED
        BY <1>2, <3>1, AppendTo
  <2>4. /\ H \in Seq(Seq(T)) /\ DOMAIN H = DOMAIN G
        /\ H[p] = Append(G[p], x)
        /\ \A i \in DOMAIN G : i # p => H[i] = G[i]
      BY <1>1, <2>1, <2>2, <2>3
  <2> HIDE DEF H, p, x
  <2>5. \A i \in DOMAIN H : /\ H[i] # <<>> /\ H[i][1] = G[i][1]
                            /\ ToSet(G[i]) \subseteq ToSet(H[i])
                            /\ \A f \in ToSet(H[i]) : f \in ToSet(G[i]) \/ (i = p /\ f = x)
      BY <1>1, <2>3, <2>4
  <2>6. \A k \in 1..n : \E i \in DOMAIN H : fs[k] \in ToSet(H[i])
    <3>1. x \in ToSet(H[p])
        BY <2>3, <2>4
    <3>2. QED
        BY <1>4, <1>6, <2>1, <2>4, <2>5, <3>1 DEF x
  <2>7. ASSUME NEW i \in DOMAIN H, NEW f \in ToSet(H[i])
        PROVE  (\E k \in 1..n : f = fs[k]) /\ (f = H[i][1] \/ Joins(f, H[i][1], pass))
    <3>1. CASE f \in ToSet(G[i])
      <4>1. /\ \E k \in 1..n - 1 : f = fs[k]
            /\ f = G[i][1] \/ Joins(f, G[i][1], pass)
          BY <1>6, <2>4, <3>1
      <4>2. H[i][1] = G[i][1]
          BY <2>5
      <4>3. QED
          BY <1>3, <4>1, <4>2
    <3>2. CASE i = p /\ f = x
        BY <1>5, <2>1, <2>5, <3>2 DEF x
    <3>3. QED
        BY <2>5, <3>1, <3>2
  <2>8. ASSUME NEW i \in DOMAIN H, NEW j \in DOMAIN H, i # j,
               NEW f \in ToSet(H[i]), NEW g \in ToSet(H[j])
        PROVE  \E k, l \in 1..n : k # l /\ f = fs[k] /\ g = fs[l]
    <3>1. CASE f \in ToSet(G[i]) /\ g \in ToSet(G[j])
      <4>1. \E k, l \in 1..n - 1 : k # l /\ f = fs[k] /\ g = fs[l]
          BY <1>6, <2>4, <2>8, <3>1
      <4>2. QED
          BY <1>3, <4>1
    <3>2. CASE f \in ToSet(G[i]) /\ j = p /\ g = x
      <4>1. \E k \in 1..n - 1 : f = fs[k]
          BY <1>6, <2>4, <3>2
      <4>2. QED
          BY <1>3, <1>5, <3>2, <4>1 DEF x
    <3>3. CASE i = p /\ f = x /\ g \in ToSet(G[j])
      <4>1. \E k \in 1..n - 1 : g = fs[k]
          BY <1>6, <2>4, <3>3
      <4>2. QED
          BY <1>3, <1>5, <3>3, <4>1 DEF x
    <3>4. QED
        BY <2>5, <2>8, <3>1, <3>2, <3>3
  <2>9. \A i, j \in DOMAIN H : i < j => ~Joins(H[j][1], H[i][1], pass)
      BY <1>6, <2>4, <2>5
  <2>10. Groups(T, fs, pass, H, n)
      BY <2>4, <2>5, <2>6, <2>7, <2>8, <2>9 DEF Groups
  <2>11. QED
      BY <2>10 DEF H, x
<1>9. QED
    BY <1>7, <1>8

LEMMA GroupedKeeps ==
    ASSUME NEW T, NEW fs \in Seq(T), NEW pass
    PROVE  Groups(T, fs, pass, Grouped(fs, pass), Len(fs))
<1>1. PICK g : /\ Grouped(fs, pass) = g[Len(fs)]
               /\ g[0] = <<>>
               /\ \A n \in 1..Len(fs) : g[n] = Place(g[n - 1], fs[n], pass)
    BY Grouping
<1> DEFINE F == {n \in 0..Len(fs) : ~Groups(T, fs, pass, g[n], n)}
<1>2. Groups(T, fs, pass, g[0], 0)
    BY <1>1 DEF Groups
<1>3. CASE F # {}
  <2>1. F \in SUBSET Nat
      OBVIOUS
  <2>2. PICK n \in F : \A m \in F : n <= m
      BY <1>3, <2>1, Least
  <2>3. n \in 1..Len(fs) /\ n - 1 \in 0..Len(fs) /\ n - 1 \notin F
      BY <1>2, <2>2
  <2>4. Groups(T, fs, pass, g[n - 1], n - 1)
      BY <2>3
  <2>5. Groups(T, fs, pass, g[n], n)
      BY <1>1, <2>3, <2>4, PlaceKeeps
  <2>6. QED
      BY <2>2, <2>5
<1>4. Len(fs) \in 0..Len(fs)
    OBVIOUS
<1>5. QED
    BY <1>1, <1>3, <1>4

(* One pass of the deduplication *)

\* Every finding is kept by a merged one, whose key is that of a finding.
LEMMA PassKeeps ==
    ASSUME NEW fs \in Seq(Found), NEW pass
    PROVE  LET ms == Merged(Grouped(fs, pass))
           IN  /\ ms \in Seq(Found)
               /\ \A f \in ToSet(fs) : \E m \in ToSet(ms) : Keeps(m, f)
               /\ \A m \in ToSet(ms) : \E f \in ToSet(fs) : m.key = f.key
<1> DEFINE G == Grouped(fs, pass)
           ms == Merged(G)
<1>1. Groups(Found, fs, pass, G, Len(fs))
    BY GroupedKeeps
<1>2. G \in Seq(Seq(Found)) /\ DOMAIN G = 1..Len(G) /\ Len(G) \in Nat
    BY <1>1 DEF Groups
<1> HIDE DEF G
<1>3. \A i \in DOMAIN G : G[i] \in Seq(Found) /\ G[i] # <<>>
    BY <1>1, <1>2 DEF Groups
<1>4. \A i \in DOMAIN G : /\ Merge(G[i]) \in Found
                          /\ \A f \in ToSet(G[i]) : Keeps(Merge(G[i]), f)
                          /\ \E f \in ToSet(G[i]) : Merge(G[i]).key = f.key
    BY <1>3, MergeKeeps
<1>5. ms \in Seq(Found) /\ DOMAIN ms = DOMAIN G /\ \A i \in DOMAIN G : ms[i] = Merge(G[i])
  <2>1. ms = [i \in 1..Len(G) |-> Merge(G[i])]
      BY <1>2 DEF Merged
  <2> HIDE DEF ms
  <2>2. ms = [i \in 1..Len(G) |-> ms[i]] /\ \A i \in 1..Len(G) : ms[i] = Merge(G[i])
      BY <2>1
  <2>3. ms \in Seq(Found)
      BY <1>2, <1>4, <2>2, SequenceOf
  <2>4. QED
      BY <1>2, <2>1, <2>3
<1> HIDE DEF ms
<1>6. ASSUME NEW f \in ToSet(fs) PROVE \E m \in ToSet(ms) : Keeps(m, f)
  <2>1. PICK k \in 1..Len(fs) : f = fs[k]
      BY <1>6, ElementsOf DEF ToSet
  <2>2. PICK i \in DOMAIN G : f \in ToSet(G[i])
      BY <1>1, <2>1 DEF Groups
  <2>3. ms[i] \in ToSet(ms)
      BY <1>5, <2>2 DEF ToSet
  <2>4. QED
      BY <1>4, <1>5, <2>2, <2>3
<1>7. ASSUME NEW m \in ToSet(ms) PROVE \E f \in ToSet(fs) : m.key = f.key
  <2>1. PICK i \in DOMAIN G : m = Merge(G[i])
      BY <1>5, <1>7 DEF ToSet
  <2>2. PICK f \in ToSet(G[i]) : m.key = f.key
      BY <1>4, <2>1
  <2>3. PICK k \in 1..Len(fs) : f = fs[k]
      BY <1>1, <2>1, <2>2 DEF Groups
  <2>4. f \in ToSet(fs)
      BY <2>3, ElementsOf
  <2>5. QED
      BY <2>2, <2>4
<1>8. QED
    BY <1>5, <1>6, <1>7 DEF ms, G

\* No evidence is in two findings.
Apart(fs) == \A i, j \in DOMAIN fs : i # j => fs[i].evs \intersect fs[j].evs = {}

LEMMA PassKeepsApart ==
    ASSUME NEW fs \in Seq(Found), NEW pass, Apart(fs)
    PROVE  Apart(Merged(Grouped(fs, pass)))
<1> DEFINE G == Grouped(fs, pass)
           ms == Merged(G)
<1>1. Groups(Found, fs, pass, G, Len(fs))
    BY GroupedKeeps
<1> HIDE DEF G
<1>2. \A i \in DOMAIN G : G[i] \in Seq(Found) /\ G[i] # <<>>
    BY <1>1 DEF Groups
<1>3. \A i \in DOMAIN G : ms[i].evs = UNION {f.evs : f \in ToSet(G[i])}
    BY <1>2, MergeKeeps DEF Merged
<1>4. DOMAIN ms = DOMAIN G
    BY DEF Merged
<1> HIDE DEF ms
<1>5. ASSUME NEW i \in DOMAIN ms, NEW j \in DOMAIN ms, i # j,
             NEW e \in ms[i].evs \intersect ms[j].evs
      PROVE  FALSE
  <2>1. PICK f \in ToSet(G[i]), g \in ToSet(G[j]) : e \in f.evs /\ e \in g.evs
      BY <1>3, <1>4, <1>5
  <2>2. PICK k \in 1..Len(fs), l \in 1..Len(fs) : k # l /\ f = fs[k] /\ g = fs[l]
      BY <1>1, <1>4, <1>5, <2>1 DEF Groups
  <2>3. k \in DOMAIN fs /\ l \in DOMAIN fs
      BY <2>2, ElementsOf
  <2>4. QED
      BY <2>1, <2>2, <2>3 DEF Apart
<1>6. QED
    BY <1>5 DEF Apart, ms, G

\* Findings of one CWE each: the same for the same key, and with both a file
\* and a line, or neither, where the others of their CWE have them.
Coherent(fs) ==
    \A f, g \in ToSet(fs) : /\ \A c, d \in f.cwe : c = d
                            /\ f.key = g.key => f.cwe = g.cwe
                            /\ f.cwe = g.cwe => Placed(f, g)

\* f is where m has its place from.
PlaceOf(m, f) == f.evs \subseteq m.evs /\ m.cwe = f.cwe /\ m.file = f.file /\ m.line = f.line

LEMMA PassKeepsCoherent ==
    ASSUME NEW fs \in Seq(Found), NEW pass, Coherent(fs)
    PROVE  LET ms == Merged(Grouped(fs, pass))
           IN  /\ Coherent(ms)
               /\ \A m \in ToSet(ms) : \E f \in ToSet(fs) : PlaceOf(m, f)
<1> DEFINE G == Grouped(fs, pass)
           ms == Merged(G)
<1>1. Groups(Found, fs, pass, G, Len(fs))
    BY GroupedKeeps
<1> HIDE DEF G
<1>2. \A i \in DOMAIN G : G[i] \in Seq(Found) /\ G[i] # <<>> /\ ToSet(G[i]) \subseteq ToSet(fs)
  <2>1. \A i \in DOMAIN G : G[i] \in Seq(Found) /\ G[i] # <<>>
      BY <1>1 DEF Groups
  <2>2. \A i \in DOMAIN G : \A f \in ToSet(G[i]) : \E k \in 1..Len(fs) : f = fs[k]
      BY <1>1 DEF Groups
  <2>3. \A k \in 1..Len(fs) : fs[k] \in ToSet(fs)
      BY ElementsOf
  <2>4. QED
      BY <2>1, <2>2, <2>3
<1>3. ASSUME NEW i \in DOMAIN G
      PROVE  \A f, g \in ToSet(G[i]) : f.cwe = g.cwe
  <2>1. G[i][1] \in ToSet(G[i])
      BY <1>2, ElementsOf
  <2>2. ASSUME NEW f \in ToSet(G[i]) PROVE f.cwe = G[i][1].cwe
    <3>1. f = G[i][1] \/ Joins(f, G[i][1], pass)
        BY <1>1 DEF Groups
    <3>2. f \in ToSet(fs) /\ G[i][1] \in ToSet(fs)
        BY <1>2, <2>1
    <3>3. QED
        BY <3>1, <3>2 DEF Joins, Corroborates, Coherent
  <2>3. QED
      BY <2>2
<1>4. ASSUME NEW i \in DOMAIN G
      PROVE  /\ \E f \in ToSet(fs) : PlaceOf(Merge(G[i]), f)
             /\ \E f \in ToSet(fs) : Merge(G[i]).key = f.key /\ Merge(G[i]).cwe = f.cwe
  <2> DEFINE m == Merge(G[i])
  <2>1. /\ m.evs = UNION {f.evs : f \in ToSet(G[i])}
        /\ m.cwe = UNION {f.cwe : f \in ToSet(G[i])}
        /\ m.file = FirstFile(G[i]) /\ m.line = FirstLine(G[i])
        /\ \E f \in ToSet(G[i]) : m.key = f.key
      BY <1>2, MergeKeeps
  <2> HIDE DEF m
  <2>2. \A f \in ToSet(G[i]) : m.cwe = f.cwe
      BY <1>3, <2>1
  <2>3. PICK f \in ToSet(G[i]) : FirstFile(G[i]) = f.file /\ FirstLine(G[i]) = f.line
    <3>1. \A f, g \in ToSet(G[i]) : Placed(f, g)
        BY <1>2, <1>3 DEF Coherent
    <3>2. QED
        BY <1>2, <3>1, MergePlace
  <2>4. f.evs \subseteq m.evs
      BY <2>1
  <2>5. PlaceOf(m, f)
      BY <2>1, <2>2, <2>3, <2>4 DEF PlaceOf
  <2>6. QED
      BY <1>2, <2>1, <2>2, <2>5 DEF m
<1>5. DOMAIN ms = DOMAIN G /\ \A i \in DOMAIN G : ms[i] = Merge(G[i])
    BY DEF Merged
<1> HIDE DEF ms
<1>6. \A m \in ToSet(ms) : \E i \in DOMAIN G : m = Merge(G[i])
    BY <1>5 DEF ToSet
<1>7. ASSUME NEW m \in ToSet(ms), NEW n \in ToSet(ms)
      PROVE  /\ \A c, d \in m.cwe : c = d
             /\ m.key = n.key => m.cwe = n.cwe
             /\ m.cwe = n.cwe => Placed(m, n)
  <2>1. PICK i \in DOMAIN G, j \in DOMAIN G : m = Merge(G[i]) /\ n = Merge(G[j])
      BY <1>6
  <2>2. PICK f \in ToSet(fs), g \in ToSet(fs) : PlaceOf(m, f) /\ PlaceOf(n, g)
      BY <1>4, <2>1
  <2>3. PICK h \in ToSet(fs), k \in ToSet(fs) :
            m.key = h.key /\ m.cwe = h.cwe /\ n.key = k.key /\ n.cwe = k.cwe
      BY <1>4, <2>1
  <2>4. m.key = n.key => m.cwe = n.cwe
      BY <2>3 DEF Coherent
  <2>5. \A c, d \in m.cwe : c = d
      BY <2>3 DEF Coherent
  <2>6. m.cwe = n.cwe => Placed(m, n)
      BY <2>2 DEF Coherent, PlaceOf, Placed
  <2>7. QED
      BY <2>4, <2>5, <2>6
<1>8. \A m \in ToSet(ms) : \E f \in ToSet(fs) : PlaceOf(m, f)
    BY <1>4, <1>6
<1>9. Coherent(ms)
    BY <1>7 DEF Coherent
<1>10. QED
    BY <1>8, <1>9 DEF ms, G

\* The second pass leaves no key twice.
LEMMA KeysApart ==
    ASSUME NEW fs \in Seq(Found)
    PROVE  LET ms == Merged(Grouped(fs, "keys"))
           IN  \A i, j \in DOMAIN ms : ms[i].key = ms[j].key => i = j
<1> DEFINE G == Grouped(fs, "keys")
           ms == Merged(G)
<1>1. Groups(Found, fs, "keys", G, Len(fs))
    BY GroupedKeeps
<1>2. DOMAIN G = 1..Len(G) /\ Len(G) \in Nat
    BY <1>1 DEF Groups
<1> HIDE DEF G
<1>3. \A i \in DOMAIN G : G[i] \in Seq(Found) /\ G[i] # <<>>
    BY <1>1 DEF Groups
<1>4. DOMAIN ms = DOMAIN G /\ \A i \in DOMAIN G : ms[i] = Merge(G[i])
    BY DEF Merged
<1> HIDE DEF ms
<1>5. ASSUME NEW i \in DOMAIN G PROVE ms[i].key = G[i][1].key
  <2>1. PICK f \in ToSet(G[i]) : ms[i].key = f.key
      BY <1>3, <1>4, MergeKeeps
  <2>2. f = G[i][1] \/ Joins(f, G[i][1], "keys")
      BY <1>1 DEF Groups
  <2>3. QED
      BY <2>1, <2>2 DEF Joins
<1>6. ASSUME NEW i \in DOMAIN G, NEW j \in DOMAIN G, i < j PROVE ms[i].key # ms[j].key
  <2>1. ~Joins(G[j][1], G[i][1], "keys")
      BY <1>1, <1>6 DEF Groups
  <2>2. QED
      BY <1>5, <2>1 DEF Joins
<1>7. \A i, j \in DOMAIN G : i < j \/ j < i \/ i = j
    BY <1>2
<1>8. \A i, j \in DOMAIN ms : ms[i].key = ms[j].key => i = j
    BY <1>4, <1>6, <1>7
<1>9. QED
    BY <1>8 DEF ms, G

(* Deduplication *)

LEMMA DedupeKeeps ==
    ASSUME NEW fs \in Seq(Found)
    PROVE  /\ Dedupe(fs) \in Seq(Found)
           /\ \A f \in ToSet(fs) : \E m \in ToSet(Dedupe(fs)) : Keeps(m, f)
           /\ \A m \in ToSet(Dedupe(fs)) : \E f \in ToSet(fs) : m.key = f.key
           /\ \A i, j \in DOMAIN Dedupe(fs) : Dedupe(fs)[i].key = Dedupe(fs)[j].key => i = j
<1> DEFINE ms == Merged(Grouped(fs, "weaknesses"))
           ns == Merged(Grouped(ms, "keys"))
<1>1. /\ ms \in Seq(Found)
      /\ \A f \in ToSet(fs) : \E m \in ToSet(ms) : Keeps(m, f)
      /\ \A m \in ToSet(ms) : \E f \in ToSet(fs) : m.key = f.key
    BY PassKeeps
<1> HIDE DEF ms
<1>2. /\ ns \in Seq(Found)
      /\ \A f \in ToSet(ms) : \E m \in ToSet(ns) : Keeps(m, f)
      /\ \A m \in ToSet(ns) : \E f \in ToSet(ms) : m.key = f.key
      /\ \A i, j \in DOMAIN ns : ns[i].key = ns[j].key => i = j
    BY <1>1, PassKeeps, KeysApart
<1> HIDE DEF ns
<1>3. ASSUME NEW f \in ToSet(fs) PROVE \E m \in ToSet(ns) : Keeps(m, f)
  <2>1. PICK m \in ToSet(ms) : Keeps(m, f)
      BY <1>1
  <2>2. PICK n \in ToSet(ns) : Keeps(n, m)
      BY <1>2
  <2>3. /\ f \in Found /\ m \in Found /\ n \in Found
      BY <1>1, <1>2, ElementsOf
  <2>4. \A g \in Found : severity_rank(g.severity) \in Nat /\ confidence_rank(g.confidence) \in Nat
    <3>1. \A g \in Found : g.severity \in Severities /\ g.confidence \in Confidences
        BY DEF Found
    <3>2. QED
        BY <3>1, SeverityRank, ConfidenceRank
  <2>5. Keeps(n, f)
      BY <2>1, <2>2, <2>3, <2>4 DEF Keeps
  <2>6. QED
      BY <2>5
<1>4. \A m \in ToSet(ns) : \E f \in ToSet(fs) : m.key = f.key
    BY <1>1, <1>2
<1>5. Dedupe(fs) = ns
    BY DEF Dedupe, ms, ns
<1>6. QED
    BY <1>2, <1>3, <1>4, <1>5

LEMMA DedupeCoherent ==
    ASSUME NEW fs \in Seq(Found), Apart(fs), Coherent(fs)
    PROVE  /\ Apart(Dedupe(fs)) /\ Coherent(Dedupe(fs))
           /\ \A m \in ToSet(Dedupe(fs)) : \E f \in ToSet(fs) : PlaceOf(m, f)
<1> DEFINE ms == Merged(Grouped(fs, "weaknesses"))
           ns == Merged(Grouped(ms, "keys"))
<1>1. /\ ms \in Seq(Found) /\ Apart(ms) /\ Coherent(ms)
      /\ \A m \in ToSet(ms) : \E f \in ToSet(fs) : PlaceOf(m, f)
    BY PassKeeps, PassKeepsApart, PassKeepsCoherent
<1> HIDE DEF ms
<1>2. /\ Apart(ns) /\ Coherent(ns)
      /\ \A m \in ToSet(ns) : \E f \in ToSet(ms) : PlaceOf(m, f)
    BY <1>1, PassKeepsApart, PassKeepsCoherent
<1> HIDE DEF ns
<1>3. \A m \in ToSet(ns) : \E f \in ToSet(fs) : PlaceOf(m, f)
    BY <1>1, <1>2 DEF PlaceOf
<1>4. Dedupe(fs) = ns
    BY DEF Dedupe, ms, ns
<1>5. QED
    BY <1>2, <1>3, <1>4

(* What the engines report *)

Raws == {Reported(present, port) : present \in Selections, port \in Ports} \union {<<>>}

LEMMA WeaknessTyped ==
    ASSUME NEW i \in DOMAIN Weaknesses
    PROVE  /\ i \in Nat /\ Weaknesses[i].rule \in STRING
           /\ Weaknesses[i].source \in Sources /\ Weaknesses[i].cwe \in SUBSET STRING
           /\ Weaknesses[i].reqs \in SUBSET Requirements
           /\ Weaknesses[i].file \in STRING /\ Weaknesses[i].line \in Nat
           /\ Weaknesses[i].severity \in Severities
           /\ Weaknesses[i].confidence \in Confidences
<1> DEFINE W == [rule : STRING, source : Sources \ {"internal"},
                 polarity : {"vuln", "info"}, tags : SUBSET Requirements,
                 cwe : SUBSET STRING, reqs : SUBSET Requirements,
                 file : STRING, line : Nat,
                 severity : Severities, confidence : Confidences,
                 owasp : BOOLEAN, remedy : BOOLEAN]
<1>1. Weaknesses \in Seq(W)
    BY WeaknessAssumption, Scales
<1>2. W = W
    OBVIOUS
<1> HIDE DEF W
<1>3. i \in Nat /\ Weaknesses[i] \in W
    BY <1>1
<1>4. QED
    BY <1>3 DEF W

LEMMA RawFindings ==
    ASSUME NEW raw \in Raws
    PROVE  /\ raw \in Seq(Found) /\ Apart(raw) /\ Coherent(raw)
           /\ \A n \in DOMAIN raw : \E i \in DOMAIN Weaknesses :
                 raw[n].evs = {i} /\ raw[n].reqs = Weaknesses[i].reqs
<1>1. CASE raw = <<>>
    BY <1>1, ElementsOf DEF Apart, Coherent, ToSet
<1>2. CASE \E present \in Selections, port \in Ports : raw = Reported(present, port)
  <2>1. PICK present \in Selections, port \in Ports : raw = Reported(present, port)
      BY <1>2
  <2>2. PICK k \in Nat : present \in [1..k -> DOMAIN Weaknesses]
      BY BoundAssumption DEF Selections
  <2>3. \A m, n \in 1..k : m < n => present[m] < present[n]
      BY <2>2 DEF Selections
  <2>4. DOMAIN raw = 1..k /\ \A n \in 1..k : raw[n] = RawFinding(present[n], port)
      BY <2>1, <2>2 DEF Reported
  <2>5. ASSUME NEW i \in DOMAIN Weaknesses
        PROVE  /\ RawFinding(i, port) \in Found
               /\ RawFinding(i, port).evs = {i}
               /\ RawFinding(i, port).reqs = Weaknesses[i].reqs
               /\ RawFinding(i, port).cwe = Weaknesses[i].cwe
               /\ RawFinding(i, port).file = Weaknesses[i].file
               /\ RawFinding(i, port).line = Weaknesses[i].line
               /\ RawFinding(i, port).key[1] = Weaknesses[i].rule
    <3>1. DedupKey(Weaknesses[i], port) \in STRING \X Nat
          /\ DedupKey(Weaknesses[i], port)[1] = Weaknesses[i].rule
        BY WeaknessTyped, PortAssumption DEF DedupKey
    <3>2. QED
        BY <3>1, WeaknessTyped DEF RawFinding, Found
  <2>6. raw \in Seq(Found)
    <3>1. raw = [n \in 1..k |-> raw[n]] /\ \A n \in 1..k : raw[n] \in Found
        BY <2>1, <2>2, <2>4, <2>5 DEF Reported
    <3>2. QED
        BY <3>1, SequenceOf
  <2>7. Apart(raw)
    <3>1. \A m, n \in 1..k : m # n => present[m] # present[n]
      <4>1. \A m \in 1..k : present[m] \in Nat /\ m \in Nat
          BY <2>2, WeaknessTyped
      <4>2. \A m, n \in 1..k : m # n => m < n \/ n < m
          OBVIOUS
      <4>3. QED
          BY <2>3, <4>1, <4>2
    <3>2. QED
        BY <2>2, <2>4, <2>5, <3>1 DEF Apart
  <2>8. Coherent(raw)
    <3>1. ASSUME NEW f \in ToSet(raw), NEW g \in ToSet(raw)
          PROVE  /\ \A c, d \in f.cwe : c = d
                 /\ f.key = g.key => f.cwe = g.cwe
                 /\ f.cwe = g.cwe => Placed(f, g)
      <4>1. PICK i \in DOMAIN Weaknesses, j \in DOMAIN Weaknesses :
                f = RawFinding(i, port) /\ g = RawFinding(j, port)
          BY <2>2, <2>4 DEF ToSet
      <4>2. QED
          BY <2>5, <4>1, RuleAssumption, PlaceAssumption DEF Placed
    <3>2. QED
        BY <3>1 DEF Coherent
  <2>9. QED
      BY <2>2, <2>4, <2>5, <2>6, <2>7, <2>8
<1>3. QED
    BY <1>1, <1>2 DEF Raws

(* The score *)

LEMMA WeighedBounds ==
    ASSUME NEW weights \in [Severities -> Nat], NEW X, IsFiniteSet(X),
           NEW severityOf \in [X -> Severities]
    PROVE  /\ Weighed(weights, severityOf) \in Nat
           /\ \A x \in X : weights[severityOf[x]] <= Weighed(weights, severityOf)
<1> DEFINE Count(s) == Cardinality({x \in DOMAIN severityOf : severityOf[x] = s})
<1>1. ASSUME NEW s PROVE /\ Count(s) \in Nat
                         /\ \A x \in X : severityOf[x] = s => Count(s) >= 1
  <2> DEFINE Xs == {x \in DOMAIN severityOf : severityOf[x] = s}
  <2>1. Xs \subseteq X
      OBVIOUS
  <2>2. IsFiniteSet(Xs)
      BY <2>1, FS_Subset
  <2>3. Cardinality(Xs) \in Nat /\ (Cardinality(Xs) = 0 <=> Xs = {})
      BY <2>2, FS_CardinalityType, FS_EmptySet
  <2>4. \A x \in X : severityOf[x] = s => Xs # {}
      OBVIOUS
  <2> HIDE DEF Xs
  <2>5. Cardinality(Xs) \in Nat /\ \A x \in X : severityOf[x] = s => Cardinality(Xs) >= 1
      BY <2>3, <2>4
  <2>6. QED
      BY <2>5 DEF Xs
<1>2. Weighed(weights, severityOf)
      = weights["Critical"] * Count("Critical") + weights["High"] * Count("High")
        + weights["Medium"] * Count("Medium") + weights["Low"] * Count("Low")
        + weights["Info"] * Count("Info")
    BY DEF Weighed
<1> HIDE DEF Count
<1>3. \A s \in Severities : weights[s] \in Nat
    OBVIOUS
<1>4. ASSUME NEW s \in Severities
      PROVE  /\ weights[s] * Count(s) \in Nat
             /\ \A x \in X : severityOf[x] = s => weights[s] <= weights[s] * Count(s)
  <2>1. \A w, c \in Nat : w * c \in Nat /\ (c >= 1 => w <= w * c)
      OBVIOUS
  <2>2. QED
      BY <1>1, <1>3, <2>1
<1>5. "Critical" \in Severities /\ "High" \in Severities /\ "Medium" \in Severities
      /\ "Low" \in Severities /\ "Info" \in Severities
    BY DEF Severities
<1> DEFINE a == weights["Critical"] * Count("Critical")
           b == weights["High"] * Count("High")
           c == weights["Medium"] * Count("Medium")
           d == weights["Low"] * Count("Low")
           e == weights["Info"] * Count("Info")
<1>6. a \in Nat /\ b \in Nat /\ c \in Nat /\ d \in Nat /\ e \in Nat
    BY <1>4, <1>5
<1>7. \A x \in X : \/ weights[severityOf[x]] <= a \/ weights[severityOf[x]] <= b
                   \/ weights[severityOf[x]] <= c \/ weights[severityOf[x]] <= d
                   \/ weights[severityOf[x]] <= e
  <2>1. ASSUME NEW x \in X
        PROVE  \/ weights[severityOf[x]] <= a \/ weights[severityOf[x]] <= b
               \/ weights[severityOf[x]] <= c \/ weights[severityOf[x]] <= d
               \/ weights[severityOf[x]] <= e
    <3>1. severityOf[x] \in Severities
        OBVIOUS
    <3>2. \/ severityOf[x] = "Critical" \/ severityOf[x] = "High"
          \/ severityOf[x] = "Medium" \/ severityOf[x] = "Low" \/ severityOf[x] = "Info"
        BY <3>1 DEF Severities
    <3>3. QED
        BY <1>4, <1>5, <3>2
  <2>2. QED
      BY <2>1
<1>8. \A x \in X : weights[severityOf[x]] \in Nat
    BY <1>3
<1>9. Weighed(weights, severityOf) = a + b + c + d + e
    BY <1>2
<1> HIDE DEF a, b, c, d, e
<1>10. QED
    BY <1>6, <1>7, <1>8, <1>9

LEMMA Weights ==
    SCORE_WEIGHTS \in [Severities -> Nat] /\ REQ_FAIL_WEIGHTS \in [Severities -> Nat]
BY DEF SCORE_WEIGHTS, REQ_FAIL_WEIGHTS, Severities

\* What weighs less weighs what is less severe.
LEMMA HeavierIsWorse ==
    ASSUME NEW s \in Severities, NEW t \in Severities, severity_rank(s) <= severity_rank(t)
    PROVE  SCORE_WEIGHTS[t] <= SCORE_WEIGHTS[s]
<1>1. /\ severity_rank(s) \in 1..5 /\ SEVERITIES[severity_rank(s)] = s
      /\ severity_rank(t) \in 1..5 /\ SEVERITIES[severity_rank(t)] = t
    BY SeverityRank
<1>2. \A i, j \in 1..5 : i <= j => SCORE_WEIGHTS[SEVERITIES[j]] <= SCORE_WEIGHTS[SEVERITIES[i]]
    BY DEF SCORE_WEIGHTS, SEVERITIES
<1>3. QED
    BY <1>1, <1>2

LEMMA WeightBounds ==
    ASSUME NEW s \in Severities
    PROVE  SCORE_WEIGHTS[s] \in 0..1200 /\ REQ_FAIL_WEIGHTS[s] \in 0..1200
<1>1. SCORE_WEIGHTS \in [Severities -> 0..1200] /\ REQ_FAIL_WEIGHTS \in [Severities -> 0..1200]
    BY DEF SCORE_WEIGHTS, REQ_FAIL_WEIGHTS, Severities
<1>2. QED
    BY <1>1

LEMMA ScoreBounds ==
    ASSUME NEW fs \in Seq(Found), NEW result \in [Requirements -> Verdicts],
           NEW score, score = ComputeScore(fs, result, ReqSeverity)
    PROVE  /\ score \in Int /\ score >= 0
           /\ \A m \in ToSet(fs) : score <= 10000 - SCORE_WEIGHTS[m.severity]
           /\ \A r \in Requirements :
                 result[r] = "FAIL" => score <= 10000 - REQ_FAIL_WEIGHTS[ReqSeverity[r]]
<1> DEFINE failed == {r \in DOMAIN result : result[r] = "FAIL"}
           ofFindings == [i \in DOMAIN fs |-> fs[i].severity]
           ofFailed == [r \in failed |-> ReqSeverity[r]]
<1>1. \A i \in DOMAIN fs : fs[i].severity \in Severities
  <2>1. \A i \in DOMAIN fs : fs[i] \in Found
      BY ElementsOf
  <2>2. QED
      BY <2>1 DEF Found
<1>2. PICK a \in Nat : /\ a = Weighed(SCORE_WEIGHTS, ofFindings)
                       /\ \A i \in DOMAIN fs : SCORE_WEIGHTS[fs[i].severity] <= a
  <2>1. IsFiniteSet(DOMAIN fs)
    <3>1. DOMAIN fs = 1..Len(fs) /\ Len(fs) \in Nat
        BY ElementsOf
    <3>2. QED
        BY <3>1, FS_Interval
  <2>2. ofFindings \in [DOMAIN fs -> Severities]
      BY <1>1
  <2>3. \A i \in DOMAIN fs : ofFindings[i] = fs[i].severity
      OBVIOUS
  <2> HIDE DEF ofFindings
  <2>4. /\ Weighed(SCORE_WEIGHTS, ofFindings) \in Nat
        /\ \A i \in DOMAIN fs : SCORE_WEIGHTS[ofFindings[i]] <= Weighed(SCORE_WEIGHTS, ofFindings)
      BY <2>1, <2>2, Weights, WeighedBounds
  <2>5. QED
      BY <2>3, <2>4
<1>3. PICK b \in Nat : /\ b = Weighed(REQ_FAIL_WEIGHTS, ofFailed)
                       /\ \A r \in failed : REQ_FAIL_WEIGHTS[ReqSeverity[r]] <= b
  <2>1. failed \subseteq Requirements /\ IsFiniteSet(failed)
      BY RequirementsAssumption, FS_Subset
  <2>2. ofFailed \in [failed -> Severities]
      BY <2>1, SeverityAssumption, Scales
  <2>3. \A r \in failed : ofFailed[r] = ReqSeverity[r]
      OBVIOUS
  <2> HIDE DEF ofFailed, failed
  <2>4. /\ Weighed(REQ_FAIL_WEIGHTS, ofFailed) \in Nat
        /\ \A r \in failed : REQ_FAIL_WEIGHTS[ofFailed[r]] <= Weighed(REQ_FAIL_WEIGHTS, ofFailed)
      BY <2>1, <2>2, Weights, WeighedBounds
  <2>5. QED
      BY <2>3, <2>4
<1> DEFINE total == IF a + b > 10000 THEN 0 ELSE 10000 - (a + b)
<1>4. score = total
    BY <1>2, <1>3 DEF ComputeScore
<1>5. \A r \in Requirements : result[r] = "FAIL" => r \in failed
    OBVIOUS
<1> HIDE DEF failed, ofFindings, ofFailed
<1>6. ASSUME NEW m \in ToSet(fs)
      PROVE  SCORE_WEIGHTS[m.severity] \in 0..1200 /\ SCORE_WEIGHTS[m.severity] <= a
  <2>1. PICK s \in Severities : s = m.severity /\ SCORE_WEIGHTS[s] <= a
      BY <1>1, <1>2, <1>6 DEF ToSet
  <2>2. SCORE_WEIGHTS[s] \in 0..1200
      BY WeightBounds
  <2>3. QED
      BY <2>1, <2>2
<1>7. ASSUME NEW r \in Requirements, result[r] = "FAIL"
      PROVE  REQ_FAIL_WEIGHTS[ReqSeverity[r]] \in 0..1200
             /\ REQ_FAIL_WEIGHTS[ReqSeverity[r]] <= b
  <2>1. PICK s \in Severities : s = ReqSeverity[r]
      BY SeverityAssumption, Scales
  <2>2. REQ_FAIL_WEIGHTS[s] <= b
      BY <1>3, <1>5, <1>7, <2>1
  <2>3. REQ_FAIL_WEIGHTS[s] \in 0..1200
      BY WeightBounds
  <2>4. QED
      BY <2>1, <2>2, <2>3
<1>9. total \in 0..10000
    OBVIOUS
<1>10. ASSUME NEW m \in ToSet(fs) PROVE total <= 10000 - SCORE_WEIGHTS[m.severity]
  <2> DEFINE w == SCORE_WEIGHTS[m.severity]
  <2>1. w \in 0..1200 /\ w <= a
      BY <1>6
  <2> HIDE DEF w
  <2>2. total <= 10000 - w
      BY <2>1
  <2>3. QED
      BY <2>2 DEF w
<1>11. ASSUME NEW r \in Requirements, result[r] = "FAIL"
       PROVE  total <= 10000 - REQ_FAIL_WEIGHTS[ReqSeverity[r]]
  <2> DEFINE v == REQ_FAIL_WEIGHTS[ReqSeverity[r]]
  <2>1. v \in 0..1200 /\ v <= b
      BY <1>7, <1>11
  <2> HIDE DEF v
  <2>2. total <= 10000 - v
      BY <2>1
  <2>3. QED
      BY <2>2 DEF v
<1> HIDE DEF total
<1>12. score \in Int /\ score >= 0
    BY <1>4, <1>9
<1>13. \A m \in ToSet(fs) : score <= 10000 - SCORE_WEIGHTS[m.severity]
    BY <1>4, <1>10
<1>14. \A r \in Requirements :
          result[r] = "FAIL" => score <= 10000 - REQ_FAIL_WEIGHTS[ReqSeverity[r]]
    BY <1>4, <1>11
<1>15. QED
    BY <1>12, <1>13, <1>14

(* The inductive invariant *)

AuditRecords ==
    [state : {"created", "scanned", "correlated", "failed"}, raw : Raws,
     findings : Seq(Found), result : [Requirements -> Verdicts \union {"NONE"}],
     score : Int]

\* An audit shows what its engines reported, or what the correlation made of it.
AuditOk(a) ==
    /\ a \in AuditRecords
    /\ a.findings \in {a.raw, Dedupe(a.raw)}
    /\ a.state = "correlated" =>
          /\ a.findings = Dedupe(a.raw)
          /\ \E files \in BOOLEAN : a.result = Matrix(a.raw, files)
          /\ a.score = ComputeScore(a.findings, a.result, ReqSeverity)

IInv ==
    /\ pc \in {"audit 1", "audit 2", "done"}
    /\ \E a, b : audits = <<a, b>> /\ AuditOk(a) /\ AuditOk(b)
    /\ AuditOk(previous)
    /\ pc = "done" =>
          comparison = CompareAudits(previous.findings, audits[2].findings,
                                     previous.result, audits[2].result)

LEMMA MatrixTyped ==
    ASSUME NEW raw, NEW files
    PROVE  Matrix(raw, files) \in [Requirements -> Verdicts]
<1>1. \A level, evs : ComputeStatus(level, evs, TRUE) \in Verdicts
    BY DEF ComputeStatus, Verdicts
<1>2. QED
    BY <1>1 DEF Matrix

LEMMA NewAuditOk == AuditOk(NewAudit)
<1>1. <<>> \in Raws /\ <<>> \in Seq(Found)
    BY DEF Raws
<1>2. NoResult \in [Requirements -> Verdicts \union {"NONE"}]
    BY DEF NoResult
<1>3. NewAudit \in AuditRecords
    BY <1>1, <1>2 DEF NewAudit, AuditRecords, NoScore
<1>4. QED
    BY <1>3 DEF AuditOk, NewAudit

LEMMA AssignedTyped ==
    ASSUME NEW a, AuditOk(a), NEW files \in BOOLEAN,
           NEW state \in {"correlated", "failed"}
    PROVE  LET b == Assigned(a, files, state)
           IN  /\ b \in AuditRecords /\ b.state = state /\ b.raw = a.raw
               /\ b.findings = Dedupe(b.raw) /\ b.result = Matrix(b.raw, files)
<1> DEFINE b == Assigned(a, files, state)
<1>1. a \in AuditRecords
    BY DEF AuditOk
<1>2. /\ Dedupe(a.raw) \in Seq(Found)
      /\ Matrix(a.raw, files) \in [Requirements -> Verdicts \union {"NONE"}]
  <2>1. a.raw \in Raws
      BY <1>1 DEF AuditRecords
  <2>2. Dedupe(a.raw) \in Seq(Found)
      BY <2>1, RawFindings, DedupeKeeps
  <2>3. Matrix(a.raw, files) \in [Requirements -> Verdicts]
      BY MatrixTyped
  <2>4. QED
      BY <2>2, <2>3
<1>3. QED
    BY <1>1, <1>2 DEF Assigned, AuditRecords

LEMMA InitIInv == Init => IInv
<1> SUFFICES ASSUME Init PROVE IInv
    OBVIOUS
<1>1. audits = <<NewAudit, NewAudit>>
  <2>1. \A x : [a \in 1..2 |-> x] = <<x, x>>
    <3>1. ASSUME NEW x, NEW s, s = <<x, x>> PROVE s = [a \in 1..2 |-> x]
      <4>1. s = [a \in 1..2 |-> s[a]] /\ \A a \in 1..2 : s[a] = x
          BY <3>1
      <4>2. QED
          BY <4>1
    <3>2. QED
        BY <3>1
  <2>2. QED
      BY <2>1 DEF Init
<1>2. QED
    BY <1>1, NewAuditOk DEF Init, IInv

\* A step of the audit at hand that leaves it as it should be.
LEMMA AuditStep ==
    ASSUME IInv, pc # "done", NEW b, AuditOk(b),
           audits' = [audits EXCEPT ![Current] = b],
           UNCHANGED <<previous, comparison, pc>>
    PROVE  IInv'
<1>1. PICK x, y : audits = <<x, y>> /\ AuditOk(x) /\ AuditOk(y)
    BY DEF IInv
<1>2. Current = 1 \/ Current = 2
    BY DEF Current
<1>3. audits' = <<b, y>> \/ audits' = <<x, b>>
    BY <1>1, <1>2
<1>4. \E c, d : audits' = <<c, d>> /\ AuditOk(c) /\ AuditOk(d)
    BY <1>1, <1>3
<1>5. QED
    BY <1>4 DEF IInv

LEMMA NextIInv == IInv /\ [Next]_vars => IInv'
<1> SUFFICES ASSUME IInv, [Next]_vars PROVE IInv'
    OBVIOUS
<1>1. PICK x, y : audits = <<x, y>> /\ AuditOk(x) /\ AuditOk(y)
    BY DEF IInv
<1>2. AuditOk(audits[Current]) /\ AuditOk(audits[1])
    BY <1>1 DEF Current
<1>3. CASE Scan
  <2>1. PICK present \in Selections, port \in Ports :
            audits' = [audits EXCEPT ![Current] =
                          [NewAudit EXCEPT !.state = "scanned",
                                           !.raw = Reported(present, port),
                                           !.findings = Reported(present, port)]]
      BY <1>3 DEF Scan
  <2> DEFINE raw == Reported(present, port)
             b == [NewAudit EXCEPT !.state = "scanned", !.raw = raw, !.findings = raw]
  <2>2. raw \in Raws /\ raw \in Seq(Found)
    <3>1. raw \in Raws
        BY DEF Raws
    <3>2. QED
        BY <3>1, RawFindings
  <2> HIDE DEF raw
  <2>3. AuditOk(b)
    <3>1. NewAudit \in AuditRecords
        BY NewAuditOk DEF AuditOk
    <3>2. b \in AuditRecords /\ b.raw = raw /\ b.findings = raw /\ b.state = "scanned"
        BY <2>2, <3>1 DEF AuditRecords
    <3>3. QED
        BY <3>2 DEF AuditOk
  <2>4. audits' = [audits EXCEPT ![Current] = b]
      BY <2>1 DEF raw
  <2> HIDE DEF b
  <2>5. QED
      BY <1>3, <2>3, <2>4, AuditStep DEF Scan
<1>4. CASE Correlate
  <2>0. PICK files \in BOOLEAN :
            LET a == Assigned(audits[Current], files, "correlated")
            IN  audits' = [audits EXCEPT ![Current] =
                    [a EXCEPT !.score = ComputeScore(a.findings, a.result, ReqSeverity)]]
      BY <1>4 DEF Correlate
  <2> DEFINE a == Assigned(audits[Current], files, "correlated")
             b == [a EXCEPT !.score = ComputeScore(a.findings, a.result, ReqSeverity)]
  <2>1. /\ a \in AuditRecords /\ a.state = "correlated"
        /\ a.findings = Dedupe(a.raw) /\ a.result = Matrix(a.raw, files)
      BY <1>2, AssignedTyped
  <2>2. ComputeScore(a.findings, a.result, ReqSeverity) \in Int
    <3>1. a.findings \in Seq(Found) /\ a.result \in [Requirements -> Verdicts]
        BY <2>1, MatrixTyped DEF AuditRecords
    <3> HIDE DEF a
    <3>2. QED
        BY <3>1, ScoreBounds
  <2> HIDE DEF a
  <2>3. /\ b \in AuditRecords /\ b.state = "correlated" /\ b.raw = a.raw
        /\ b.findings = a.findings /\ b.result = a.result
        /\ b.score = ComputeScore(a.findings, a.result, ReqSeverity)
      BY <2>1, <2>2 DEF AuditRecords
  <2>4. AuditOk(b)
      BY <2>1, <2>3 DEF AuditOk
  <2>5. audits' = [audits EXCEPT ![Current] = b]
      BY <2>0 DEF a
  <2> HIDE DEF b
  <2>6. QED
      BY <1>4, <2>4, <2>5, AuditStep DEF Correlate
<1>5. CASE CorrelationFails
  <2>0. PICK files \in BOOLEAN :
            audits' \in {[audits EXCEPT ![Current].state = "failed"],
                        [audits EXCEPT ![Current] = Assigned(@, files, "failed")]}
      BY <1>5 DEF CorrelationFails
  <2> DEFINE a == audits[Current]
             b == [a EXCEPT !.state = "failed"]
             c == Assigned(a, files, "failed")
  <2>1. AuditOk(b)
    <3>1. a \in AuditRecords /\ a.findings \in {a.raw, Dedupe(a.raw)}
        BY <1>2 DEF AuditOk
    <3>2. b \in AuditRecords /\ b.raw = a.raw /\ b.findings = a.findings /\ b.state = "failed"
        BY <3>1 DEF AuditRecords
    <3>3. QED
        BY <3>1, <3>2 DEF AuditOk
  <2>2. AuditOk(c)
    <3>1. /\ c \in AuditRecords /\ c.state = "failed" /\ c.findings = Dedupe(c.raw)
        BY <1>2, AssignedTyped
    <3>2. QED
        BY <3>1 DEF AuditOk
  <2>3. \/ audits' = [audits EXCEPT ![Current] = b]
        \/ audits' = [audits EXCEPT ![Current] = c]
      BY <1>1, <2>0 DEF Current
  <2> HIDE DEF b, c
  <2>4. QED
      BY <1>5, <2>1, <2>2, <2>3, AuditStep DEF CorrelationFails
<1>6. CASE BeginRetest
    BY <1>1, <1>2, <1>6 DEF BeginRetest, IInv
<1>7. CASE EndRetest
    BY <1>1, <1>7 DEF EndRetest, IInv
<1>8. CASE UNCHANGED vars
    BY <1>8 DEF vars, IInv
<1>9. QED
    BY <1>3, <1>4, <1>5, <1>6, <1>7, <1>8 DEF Next

LEMMA Inductive == Spec => []IInv
BY InitIInv, NextIInv, PTL DEF Spec

(* The properties *)

LEMMA CurrentOk ==
    ASSUME IInv
    PROVE  AuditOk(audits[Current]) /\ AuditOk(audits[1]) /\ AuditOk(audits[2])
<1>1. PICK x, y : audits = <<x, y>> /\ AuditOk(x) /\ AuditOk(y)
    BY DEF IInv
<1>2. AuditOk(audits[1]) /\ AuditOk(audits[2])
    BY <1>1
<1>3. Current = 1 \/ Current = 2
    BY DEF Current
<1>4. QED
    BY <1>2, <1>3

LEMMA NothingLostInv == IInv => NothingLost
<1> SUFFICES ASSUME IInv, audits[Current].state = "correlated",
                    NEW f \in ToSet(audits[Current].raw)
             PROVE  \E m \in Correlated :
                       /\ f.evs \subseteq m.evs /\ f.reqs \subseteq m.reqs
                       /\ severity_rank(m.severity) <= severity_rank(f.severity)
                       /\ confidence_rank(m.confidence) <= confidence_rank(f.confidence)
    BY DEF NothingLost
<1> DEFINE a == audits[Current]
<1>1. a.raw \in Raws /\ a.findings = Dedupe(a.raw)
    BY CurrentOk DEF AuditOk, AuditRecords
<1>2. Correlated = ToSet(Dedupe(a.raw))
    BY <1>1 DEF Correlated
<1>3. \E m \in Correlated : Keeps(m, f)
    BY <1>1, <1>2, RawFindings, DedupeKeeps
<1>4. QED
    BY <1>3 DEF Keeps

LEMMA OneWeaknessInv == IInv => OneWeakness
<1> SUFFICES ASSUME IInv, NEW m \in Correlated, NEW n \in Correlated
             PROVE  /\ \A c, d \in m.cwe : c = d
                    /\ m # n => m.evs \intersect n.evs = {}
                    /\ \E f \in ToSet(audits[Current].raw) :
                          f.evs \subseteq m.evs /\ f.file = m.file /\ f.line = m.line
    BY DEF OneWeakness
<1> DEFINE raw == audits[Current].raw
           ms == Dedupe(raw)
<1>1. audits[Current].state = "correlated"
    BY DEF Correlated
<1>2. raw \in Raws /\ Correlated = ToSet(ms)
    BY <1>1, CurrentOk DEF AuditOk, AuditRecords, Correlated
<1>3. raw \in Seq(Found) /\ Apart(raw) /\ Coherent(raw)
    BY <1>2, RawFindings
<1> HIDE DEF raw
<1>4. /\ Apart(ms) /\ Coherent(ms)
      /\ \A x \in ToSet(ms) : \E f \in ToSet(raw) : PlaceOf(x, f)
    BY <1>3, DedupeCoherent
<1> HIDE DEF ms
<1>5. \A c, d \in m.cwe : c = d
    BY <1>2, <1>4 DEF Coherent
<1>6. m # n => m.evs \intersect n.evs = {}
  <2>1. PICK i \in DOMAIN ms, j \in DOMAIN ms : m = ms[i] /\ n = ms[j]
      BY <1>2 DEF ToSet
  <2>2. QED
      BY <1>4, <2>1 DEF Apart
<1>7. \E f \in ToSet(raw) : f.evs \subseteq m.evs /\ f.file = m.file /\ f.line = m.line
    BY <1>2, <1>4 DEF PlaceOf
<1>8. QED
    BY <1>5, <1>6, <1>7 DEF raw

\* A failed requirement is one of a finding that some engine has reported, or
\* one that ZAP or the platform's own checks fail without.
LEMMA FailedIsReported ==
    ASSUME NEW raw \in Raws, NEW files \in BOOLEAN, NEW r \in Requirements,
           Matrix(raw, files)[r] = "FAIL", r \notin WithoutFinding
    PROVE  \E f \in ToSet(raw) : r \in f.reqs
<1> DEFINE evs == EngineEvidence(raw, r) \union {e \in InternalEvidence(raw, files) : e.req = r}
<1>1. StrongVuln(evs) # {}
    BY DEF Matrix, ComputeStatus
<1>2. PICK e \in evs : e.polarity = "vuln"
    BY <1>1 DEF StrongVuln
<1>3. e \notin {x \in InternalEvidence(raw, files) : x.req = r}
  <2>1. ASSUME e \in InternalEvidence(raw, files), e.req = r PROVE FALSE
    <3>1. e \in Internal(InternalVulns(raw), "vuln")
        BY <1>2, <2>1 DEF InternalEvidence, Internal
    <3>2. e.req \in {"REQ-131", "REQ-135"}
        BY <3>1 DEF Internal, InternalVulns
    <3>3. QED
        BY <2>1, <3>2 DEF WithoutFinding
  <2>2. QED
      BY <2>1
<1>4. PICK j \in UNION {raw[n].evs : n \in DOMAIN raw} : r \in Weaknesses[j].tags
    BY <1>2, <1>3 DEF EngineEvidence
<1>5. PICK n \in DOMAIN raw : j \in raw[n].evs
    BY <1>4
<1>6. PICK i \in DOMAIN Weaknesses : raw[n].evs = {i} /\ raw[n].reqs = Weaknesses[i].reqs
    BY <1>5, RawFindings
<1>7. Weaknesses[i].tags = Weaknesses[i].reqs
    BY <1>4, <1>5, <1>6, TagAssumption DEF WithoutFinding
<1>8. r \in raw[n].reqs
    BY <1>4, <1>5, <1>6, <1>7
<1>9. QED
    BY <1>5, <1>8 DEF ToSet

LEMMA ScoreCountsWorstInv == IInv => ScoreCountsWorst
<1> DEFINE a == audits[Current]
           ms == Dedupe(a.raw)
<1> SUFFICES ASSUME IInv, a.state = "correlated"
             PROVE  /\ a.score >= 0
                    /\ \A f \in ToSet(a.raw) : a.score <= 10000 - SCORE_WEIGHTS[f.severity]
                    /\ \A r \in Requirements : a.result[r] = "FAIL" =>
                          /\ a.score <= 10000 - REQ_FAIL_WEIGHTS[ReqSeverity[r]]
                          /\ r \in WithoutFinding \/ \E m \in Correlated : r \in m.reqs
    BY DEF ScoreCountsWorst
<1>0. PICK files \in BOOLEAN : a.result = Matrix(a.raw, files)
    BY CurrentOk DEF AuditOk
<1>1. /\ a.raw \in Raws /\ a.findings = ms
      /\ a.score = ComputeScore(a.findings, a.result, ReqSeverity)
    BY CurrentOk DEF AuditOk, AuditRecords
<1>2. Correlated = ToSet(ms)
    BY <1>1 DEF Correlated
<1>3. /\ a.raw \in Seq(Found) /\ ms \in Seq(Found)
      /\ \A f \in ToSet(a.raw) : \E m \in ToSet(ms) : Keeps(m, f)
    BY <1>1, RawFindings, DedupeKeeps
<1>4. a.result \in [Requirements -> Verdicts]
    BY <1>0, MatrixTyped
<1>5. /\ a.score \in Int /\ a.score >= 0
      /\ \A m \in ToSet(ms) : a.score <= 10000 - SCORE_WEIGHTS[m.severity]
      /\ \A r \in Requirements :
            a.result[r] = "FAIL" => a.score <= 10000 - REQ_FAIL_WEIGHTS[ReqSeverity[r]]
    BY <1>1, <1>3, <1>4, ScoreBounds
<1> HIDE DEF a, ms
<1>6. ASSUME NEW f \in ToSet(a.raw) PROVE a.score <= 10000 - SCORE_WEIGHTS[f.severity]
  <2>1. PICK m \in ToSet(ms) : Keeps(m, f)
      BY <1>3
  <2>2. PICK s \in Severities, t \in Severities : s = m.severity /\ t = f.severity
    <3>1. m \in Found /\ f \in Found
        BY <1>3, ElementsOf
    <3>2. QED
        BY <3>1 DEF Found
  <2>3. SCORE_WEIGHTS[t] <= SCORE_WEIGHTS[s]
      BY <2>1, <2>2, HeavierIsWorse DEF Keeps
  <2>4. SCORE_WEIGHTS[t] \in 0..1200 /\ SCORE_WEIGHTS[s] \in 0..1200
      BY WeightBounds
  <2>5. a.score <= 10000 - SCORE_WEIGHTS[s]
      BY <1>5, <2>2
  <2>6. a.score <= 10000 - SCORE_WEIGHTS[t]
    <3> DEFINE x == a.score
               v == SCORE_WEIGHTS[t]
               w == SCORE_WEIGHTS[s]
    <3>1. x \in Int
        BY <1>5
    <3>2. v \in 0..1200 /\ w \in 0..1200
        BY <2>4
    <3>3. v <= w
        BY <2>3
    <3>4. x <= 10000 - w
        BY <2>5
    <3> HIDE DEF x, v, w
    <3>5. x <= 10000 - v
        BY <3>1, <3>2, <3>3, <3>4
    <3>6. QED
        BY <3>5 DEF x, v
  <2>7. QED
      BY <2>2, <2>6
<1>7. ASSUME NEW r \in Requirements, a.result[r] = "FAIL"
      PROVE  r \in WithoutFinding \/ \E m \in ToSet(ms) : r \in m.reqs
  <2>1. SUFFICES ASSUME r \notin WithoutFinding PROVE \E m \in ToSet(ms) : r \in m.reqs
      OBVIOUS
  <2>2. PICK f \in ToSet(a.raw) : r \in f.reqs
      BY <1>0, <1>1, <1>7, <2>1, FailedIsReported
  <2>3. QED
      BY <1>3, <2>2 DEF Keeps
<1>8. QED
    BY <1>2, <1>5, <1>6, <1>7

\* As many keys as findings, where no key is twice.
LEMMA CountKeys ==
    ASSUME NEW fs \in Seq(Found), \A i, j \in DOMAIN fs : fs[i].key = fs[j].key => i = j
    PROVE  IsFiniteSet(Keys(fs)) /\ Cardinality(Keys(fs)) = Len(fs)
<1> DEFINE k == [i \in 1..Len(fs) |-> fs[i].key]
           S == 1..Len(fs)
<1>1. DOMAIN fs = S /\ Len(fs) \in Nat
    BY ElementsOf
<1>2. IsFiniteSet(S) /\ Cardinality(S) = Len(fs)
    BY <1>1, FS_Interval
<1>3. k \in [S -> Keys(fs)] /\ \A x \in Keys(fs) : \E i \in S : k[i] = x
    BY <1>1 DEF Keys, ToSet
<1>4. \A i, j \in S : k[i] = k[j] => i = j
    BY <1>1
<1> HIDE DEF k, S
<1>5. k \in Surjection(S, Keys(fs)) /\ k \in Injection(S, Keys(fs))
    BY <1>3, <1>4 DEF Surjection, Injection, IsInjective
<1>6. QED
    BY <1>2, <1>5, FS_Surjection

LEMMA KeysOfAudit ==
    ASSUME NEW a, AuditOk(a)
    PROVE  /\ a.state = "correlated" =>
                 IsFiniteSet(Keys(a.findings)) /\ Cardinality(Keys(a.findings)) = Len(a.findings)
           /\ \A k \in Keys(a.findings) : \E f \in ToSet(a.raw) : f.key = k
<1>1. a.raw \in Raws /\ a.findings \in {a.raw, Dedupe(a.raw)}
    BY DEF AuditOk, AuditRecords
<1>2. /\ Dedupe(a.raw) \in Seq(Found)
      /\ \A m \in ToSet(Dedupe(a.raw)) : \E f \in ToSet(a.raw) : m.key = f.key
      /\ \A i, j \in DOMAIN Dedupe(a.raw) :
            Dedupe(a.raw)[i].key = Dedupe(a.raw)[j].key => i = j
    BY <1>1, RawFindings, DedupeKeeps
<1>3. a.state = "correlated" => a.findings = Dedupe(a.raw)
    BY DEF AuditOk
<1>4. \A k \in Keys(a.findings) : \E f \in ToSet(a.raw) : f.key = k
    BY <1>1, <1>2 DEF Keys
<1>5. a.state = "correlated" =>
          IsFiniteSet(Keys(a.findings)) /\ Cardinality(Keys(a.findings)) = Len(a.findings)
    BY <1>2, <1>3, CountKeys
<1>6. QED
    BY <1>4, <1>5

LEMMA CountParts ==
    ASSUME NEW S, IsFiniteSet(S), NEW T
    PROVE  /\ Cardinality(S \intersect T) + Cardinality(S \ T) = Cardinality(S)
           /\ Cardinality(S \ T) + Cardinality(S \intersect T) = Cardinality(S)
<1>1. /\ Cardinality(S \ T) = Cardinality(S) - Cardinality(S \intersect T)
      /\ IsFiniteSet(S \intersect T)
    BY FS_Difference, FS_Intersection
<1>2. Cardinality(S) \in Nat /\ Cardinality(S \intersect T) \in Nat
    BY <1>1, FS_CardinalityType
<1>3. QED
    BY <1>1, <1>2

LEMMA ComparisonExactInv == IInv => ComparisonExact
<1> SUFFICES ASSUME IInv, pc = "done" PROVE ComparisonExact
    BY DEF ComparisonExact
<1> DEFINE c == comparison
           P == Keys(previous.findings)
           Q == Keys(audits[2].findings)
<1>1. /\ c.fixed = P \ Q /\ c.still = P \intersect Q /\ c.new = Q \ P
      /\ c.changes = Changed(previous.result, audits[2].result)
    BY DEF IInv, CompareAudits
<1>2. AuditOk(previous) /\ AuditOk(audits[2])
    BY CurrentOk DEF IInv
<1>3. previous.state = "correlated" =>
          Cardinality(c.fixed) + Cardinality(c.still) = Len(previous.findings)
  <2>1. previous.state = "correlated" => IsFiniteSet(P) /\ Cardinality(P) = Len(previous.findings)
      BY <1>2, KeysOfAudit
  <2>2. QED
      BY <1>1, <2>1, CountParts
<1>4. audits[2].state = "correlated" =>
          Cardinality(c.still) + Cardinality(c.new) = Len(audits[2].findings)
  <2>1. audits[2].state = "correlated" => IsFiniteSet(Q) /\ Cardinality(Q) = Len(audits[2].findings)
      BY <1>2, KeysOfAudit
  <2>2. IsFiniteSet(Q) => Cardinality(Q \intersect P) + Cardinality(Q \ P) = Cardinality(Q)
      BY CountParts
  <2>3. c.still = Q \intersect P /\ c.new = Q \ P
      BY <1>1
  <2> HIDE DEF c, P, Q
  <2>4. QED
      BY <2>1, <2>2, <2>3
<1>5. \A k \in c.still : \A a \in {previous, audits[2]} : \E f \in ToSet(a.raw) : f.key = k
    BY <1>1, <1>2, KeysOfAudit
<1>6. \A r \in c.changes : {previous.result[r], audits[2].result[r]} \subseteq Verdicts
    BY <1>1 DEF Changed
<1>7. QED
    BY <1>1, <1>3, <1>4, <1>5, <1>6 DEF ComparisonExact

\* Whatever the engines report, the correlation loses none of it: each finding
\* is part of one with its evidence and its requirements, as severe and as
\* certain at least (dedupe_findings, _merge).
THEOREM MergingKeeps == Spec => []NothingLost
BY Inductive, NothingLostInv, PTL

\* Merging mixes nothing: a merged finding is of one CWE, no evidence is in
\* two, and its file and line belong together (dedupe_findings, _merge).
THEOREM MergingSeparates == Spec => []OneWeakness
BY Inductive, OneWeaknessInv, PTL

\* The score counts the worst finding of any engine and every failed
\* requirement, and a finding explains each of these but the platform's own and
\* ZAP's (compute_score, internal_checks, _run_zap).
THEOREM ScoreIsHonest == Spec => []ScoreCountsWorst
BY Inductive, ScoreCountsWorstInv, PTL

\* The comparison of a retest puts each finding into one class and its numbers
\* add up (compare_audits).
THEOREM ComparisonAddsUp == Spec => []ComparisonExact
BY Inductive, ComparisonExactInv, PTL
=============================================================================
