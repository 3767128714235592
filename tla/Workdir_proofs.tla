--------------------------- MODULE Workdir_proofs ----------------------------
(***************************************************************************)
(* What holds of the two stores of a work directory, for any number of     *)
(* audits, saves, requests for a token and changes of the users, however   *)
(* their file operations interleave and wherever a crash cuts them off.    *)
(* First each store by itself, under the names Workdir gives it, then the  *)
(* work directory, where one of them is at work and the other stands.      *)
(***************************************************************************)
EXTENDS Workdir, TLAPS

(* The audit store: the invariants *)

AuditPoints  == {"idle", "artifact", "index", "rebuild", "update", "flush"}
Writers == [pc: AuditPoints, items: [A!Audits -> A!Saves], unread: SUBSET A!Audits]
Indexes == [state: A!FileStates, items: [A!Audits -> A!Saves]]

AuditTypes ==
    /\ saves \in [A!Audits -> A!Saves]
    /\ artifact \in [A!Audits -> [state: {"absent", "empty", "whole"}, save: A!Saves]]
    /\ index \in Indexes
    /\ writer \in [A!Audits -> Writers]
    /\ dead \in SUBSET A!Audits
    /\ overlapped \in BOOLEAN

\* An artifact is no newer than the last save begun, and is that save when its
\* writer has gone on to the index.
ArtifactFirst ==
    \A a \in A!Audits :
        /\ artifact[a].save <= saves[a]
        /\ writer[a].pc \in {"index", "rebuild", "update", "flush"} =>
              artifact[a].save = saves[a]

\* Neither the index nor what a writer has read of it is ahead of an artifact.
EntriesBehind ==
    \A a \in A!Audits :
        /\ index.items[a] <= artifact[a].save
        /\ \A b \in A!Audits : writer[b].items[a] <= artifact[a].save

AuditIInv == AuditTypes /\ ArtifactFirst /\ EntriesBehind

\* An artifact is empty while its writer has it open, and only then.
ArtifactSettled ==
    \A a \in A!Audits :
        /\ A!Saving(a) => saves[a] > 0
        /\ writer[a].pc # "artifact" =>
                        /\ artifact[a].state = (IF saves[a] = 0 THEN "absent" ELSE "whole")
                        /\ artifact[a].save = saves[a]

\* As long as no two saves have overlapped, one process at most is inside a save.
OneSaver ==
    ~overlapped => \A a, b \in A!Audits \ dead : A!Saving(a) /\ A!Saving(b) => a = b

\* Entries are those of the last saves, but of what is inside a save and of what
\* is still to be read.
Exact(items, unread) ==
    \A b \in A!Audits : ~A!Saving(b) /\ b \notin unread => items[b] = saves[b]

\* What the one saver has read of the index is exact; it alone has it open.
CopyExact(a) ==
    /\ writer[a].pc \in {"rebuild", "update", "flush"} =>
          Exact(writer[a].items, IF writer[a].pc = "rebuild" THEN writer[a].unread ELSE {})
    /\ writer[a].pc = "flush" => writer[a].items[a] = saves[a] /\ index.state = "empty"

\* Without overlap the index and every live copy of it are exact.
IndexExact ==
    ~overlapped => /\ index.state = "whole" => Exact(index.items, {})
                   /\ \A a \in A!Audits \ dead : CopyExact(a)

AuditSerialInv == ArtifactSettled /\ OneSaver /\ IndexExact

-----------------------------------------------------------------------------
(* The audit store: records *)

LEMMA WriterIs ==
    ASSUME NEW p \in AuditPoints, NEW items \in [A!Audits -> A!Saves],
           NEW unread \in SUBSET A!Audits
    PROVE  [pc |-> p, items |-> items, unread |-> unread] \in Writers
BY DEF Writers

LEMMA WriterAt ==
    ASSUME NEW w \in Writers, NEW p \in AuditPoints
    PROVE  /\ [w EXCEPT !.pc = p] \in Writers
           /\ [w EXCEPT !.pc = p].pc = p /\ [w EXCEPT !.pc = p].items = w.items
BY DEF Writers

LEMMA IndexIs ==
    ASSUME NEW st \in A!FileStates, NEW items \in [A!Audits -> A!Saves]
    PROVE  [state |-> st, items |-> items] \in Indexes
BY DEF Indexes

LEMMA IndexIn ==
    ASSUME NEW x \in Indexes, NEW st \in A!FileStates
    PROVE  /\ [x EXCEPT !.state = st] \in Indexes
           /\ [x EXCEPT !.state = st].items = x.items
BY DEF Indexes

LEMMA Nothing == ASSUME A!IsAuditBounds PROVE A!NoEntries \in [A!Audits -> A!Saves]
BY DEF A!NoEntries, A!Saves, A!IsAuditBounds

-----------------------------------------------------------------------------
(* The audit store: the inductive invariant *)

LEMMA AuditInitIInv == ASSUME A!IsAuditBounds, A!Init PROVE AuditIInv
<1> USE DEF A!IsAuditBounds, A!Audits, A!Saves, A!Init
<1>1. AuditTypes
  <2>1. A!AtRest \in Writers
      BY Nothing, WriterIs DEF A!AtRest, AuditPoints
  <2>2. index \in Indexes
      BY Nothing, IndexIs DEF A!FileStates
  <2>3. artifact \in [A!Audits -> [state: {"absent", "empty", "whole"}, save: A!Saves]]
      OBVIOUS
  <2>4. saves \in [A!Audits -> A!Saves] /\ writer \in [A!Audits -> Writers]
      BY <2>1
  <2>5. dead \in SUBSET A!Audits /\ overlapped \in BOOLEAN
      OBVIOUS
  <2> HIDE DEF A!Init, A!Audits, A!Saves
  <2>6. QED
      BY <2>2, <2>3, <2>4, <2>5 DEF AuditTypes
<1>2. ArtifactFirst /\ EntriesBehind
    BY DEF ArtifactFirst, EntriesBehind, A!AtRest, A!NoEntries
<1>3. QED
    BY <1>1, <1>2 DEF AuditIInv

\* A step in which writer a becomes w, with entries that are behind, and nothing
\* else of what the invariant relates changes except the state of the index.
LEMMA WriterKeeps ==
    ASSUME A!IsAuditBounds, AuditIInv, NEW a \in A!Audits, NEW from, NEW w, A!Become(a,
           from, w),
           UNCHANGED <<saves, artifact, dead, overlapped>>,
           w \in Writers,
           w.pc \in {"index", "rebuild", "update", "flush"} =>
               artifact[a].save = saves[a],
           \A b \in A!Audits : w.items[b] <= artifact[b].save,
           index' \in Indexes,
           \A b \in A!Audits : index'.items[b] <= artifact[b].save
    PROVE  AuditIInv'
<1>1. writer' = [writer EXCEPT ![a] = w]
    BY DEF A!Become
<1>2. AuditTypes'
    BY <1>1 DEF AuditIInv, AuditTypes
<1>3. ArtifactFirst'
    BY <1>1 DEF AuditIInv, AuditTypes, ArtifactFirst
<1>4. EntriesBehind'
    BY <1>1 DEF AuditIInv, AuditTypes, EntriesBehind
<1>5. QED
    BY <1>2, <1>3, <1>4 DEF AuditIInv

LEMMA BeginSaveKeeps ==
    ASSUME A!IsAuditBounds, AuditIInv, NEW a \in A!Audits, A!BeginSave(a) PROVE AuditIInv'
<1> DEFINE w == [writer[a] EXCEPT !.pc = "artifact"]
<1> USE DEF A!IsAuditBounds, A!Saves
<1>1. /\ saves[a] < MaxSaves /\ saves' = [saves EXCEPT ![a] = @ + 1]
      /\ artifact' = [artifact EXCEPT ![a].state = "empty"]
      /\ writer' = [writer EXCEPT ![a] = w]
      /\ overlapped' \in BOOLEAN /\ UNCHANGED <<index, dead>>
    BY DEF A!BeginSave, A!NextSave, A!Goto, A!Become, AuditIInv, AuditTypes
<1>2. /\ w.pc = "artifact" /\ w.items = writer[a].items
      /\ w \in Writers
    BY WriterAt DEF AuditIInv, AuditTypes, AuditPoints
<1> HIDE DEF w
<1>3. \A b \in A!Audits : /\ artifact'[b].save = artifact[b].save
                          /\ artifact'[b] \in [state: {"absent", "empty", "whole"}, save: A!Saves]
    BY <1>1 DEF AuditIInv, AuditTypes
<1>4. \A b \in A!Audits : saves'[b] = IF b = a THEN saves[b] + 1 ELSE saves[b]
    BY <1>1 DEF AuditIInv, AuditTypes
<1>5. AuditTypes'
    BY <1>1, <1>2, <1>3, <1>4 DEF AuditIInv, AuditTypes
<1>6. ArtifactFirst'
    BY <1>1, <1>2, <1>3, <1>4 DEF AuditIInv, AuditTypes, ArtifactFirst
<1>7. EntriesBehind'
    BY <1>1, <1>2, <1>3 DEF AuditIInv, AuditTypes, EntriesBehind
<1>8. QED
    BY <1>5, <1>6, <1>7 DEF AuditIInv

LEMMA WriteArtifactKeeps ==
    ASSUME A!IsAuditBounds, AuditIInv, NEW a \in A!Audits, A!WriteArtifact(a)
    PROVE  AuditIInv'
<1> DEFINE w == [writer[a] EXCEPT !.pc = "index"]
<1> USE DEF A!IsAuditBounds, A!Saves
<1>1. /\ artifact' = [artifact EXCEPT ![a] = [state |-> "whole", save |-> saves[a]]]
      /\ writer' = [writer EXCEPT ![a] = w]
      /\ UNCHANGED <<saves, index, dead, overlapped>>
    BY DEF A!WriteArtifact, A!Goto, A!Become
<1>2. /\ w.pc = "index" /\ w.items = writer[a].items
      /\ w \in Writers
    BY WriterAt DEF AuditIInv, AuditTypes, AuditPoints
<1> HIDE DEF w
<1>3. \A b \in A!Audits : /\ artifact[b].save <= artifact'[b].save
                          /\ artifact'[b].save = IF b = a THEN saves[b] ELSE artifact[b].save
                          /\ artifact'[b] \in [state: {"absent", "empty", "whole"}, save: A!Saves]
    BY <1>1 DEF AuditIInv, AuditTypes, ArtifactFirst
<1>4. AuditTypes'
    BY <1>1, <1>2, <1>3 DEF AuditIInv, AuditTypes
<1>5. ArtifactFirst'
    BY <1>1, <1>2, <1>3 DEF AuditIInv, AuditTypes, ArtifactFirst
<1>6. EntriesBehind'
  <2>1. \A b, c \in A!Audits : writer'[c].items[b] = writer[c].items[b]
      BY <1>1, <1>2 DEF AuditIInv, AuditTypes
  <2>2. \A b \in A!Audits : /\ artifact[b].save \in A!Saves /\ artifact'[b].save \in A!Saves
                            /\ index.items[b] \in A!Saves
                            /\ \A c \in A!Audits : writer[c].items[b] \in A!Saves
      BY <1>3 DEF AuditIInv, AuditTypes, Indexes, Writers
  <2>3. QED
      BY <1>1, <1>3, <2>1, <2>2 DEF AuditIInv, EntriesBehind
<1>7. QED
    BY <1>4, <1>5, <1>6 DEF AuditIInv

\* Where a writer that is past its artifact goes, with entries that are behind.
LEMMA UpdateKeeps ==
    ASSUME A!IsAuditBounds, AuditIInv, NEW a \in A!Audits,
           \/ A!ReadIndex(a) \/ A!RebuildIndex(a) \/ A!ReadArtifact(a) \/ A!EndRebuild(a)
           \/ A!OpenIndex(a) \/ A!WriteIndex(a)
    PROVE  AuditIInv'
<1> USE DEF A!IsAuditBounds, A!Saves
<1>1. /\ writer[a] \in Writers /\ index \in Indexes
      /\ writer[a].items \in [A!Audits -> A!Saves] /\ index.items \in [A!Audits -> A!Saves]
      /\ writer[a].unread \in SUBSET A!Audits
      /\ \A b \in A!Audits : index.items[b] <= artifact[b].save
      /\ \A b \in A!Audits : writer[a].items[b] <= artifact[b].save
      /\ \A b \in A!Audits : saves[b] \in A!Saves /\ artifact[b].save \in A!Saves
    BY DEF AuditIInv, AuditTypes, EntriesBehind, Writers, Indexes
<1>2. /\ A!NoEntries \in [A!Audits -> A!Saves]
      /\ \A b \in A!Audits : A!NoEntries[b] <= artifact[b].save
    BY <1>1, Nothing DEF A!NoEntries
<1>3. writer[a].pc \in {"index", "rebuild", "update", "flush"} =>
          artifact[a].save = saves[a]
    BY DEF AuditIInv, ArtifactFirst
\* The new record of the writer, by the entries it has.
<1>4. \A p \in AuditPoints, items \in [A!Audits -> A!Saves], unread \in SUBSET A!Audits :
          LET w == [pc |-> p, items |-> items, unread |-> unread]
          IN  w \in Writers /\ w.pc = p /\ w.items = items
    BY WriterIs
<1>5. CASE A!ReadIndex(a)
  <2> DEFINE w == [pc |-> "update", items |-> index.items, unread |-> {}]
  <2>1. w \in Writers /\ w.items = index.items
      BY <1>1, <1>4 DEF AuditPoints
  <2>2. A!Become(a, "index", w) /\ writer[a].pc = "index"
        /\ UNCHANGED <<saves, artifact, index, dead, overlapped>>
      BY <1>5 DEF A!ReadIndex, A!Become
  <2> HIDE DEF w
  <2>3. QED
      BY <1>1, <1>3, <2>1, <2>2, WriterKeeps
<1>6. CASE A!RebuildIndex(a)
  <2> DEFINE w == [pc |-> "rebuild", items |-> A!NoEntries, unread |-> A!OnDisk]
  <2>1. w \in Writers /\ w.items = A!NoEntries
      BY <1>2, <1>4 DEF AuditPoints, A!OnDisk
  <2>2. A!Become(a, "index", w) /\ writer[a].pc = "index"
        /\ UNCHANGED <<saves, artifact, index, dead, overlapped>>
      BY <1>6 DEF A!RebuildIndex, A!Become
  <2> HIDE DEF w
  <2>3. QED
      BY <1>1, <1>2, <1>3, <2>1, <2>2, WriterKeeps
<1>7. CASE A!ReadArtifact(a)
  <2> DEFINE b == A!Min(writer[a].unread)
             save == IF A!Readable(b) THEN artifact[b].save ELSE 0
             items == [writer[a].items EXCEPT ![b] = save]
             unread == writer[a].unread \ {b}
             w == [pc |-> "rebuild", items |-> items, unread |-> unread]
  <2>1. items \in [A!Audits -> A!Saves] /\ \A c \in A!Audits : items[c] <= artifact[c].save
    <3>1. b \in A!Audits => save \in A!Saves /\ save <= artifact[b].save
        BY <1>1
    <3> HIDE DEF save, b
    <3>2. QED
        BY <1>1, <3>1
  <2>2. unread \in SUBSET A!Audits
      BY <1>1
  <2>3. A!Become(a, "rebuild", w) /\ writer[a].pc = "rebuild"
        /\ UNCHANGED <<saves, artifact, index, dead, overlapped>>
      BY <1>7 DEF A!ReadArtifact, A!Become
  <2> HIDE DEF items, unread
  <2>4. w \in Writers /\ w.items = items
      BY <1>4, <2>1, <2>2 DEF AuditPoints
  <2> HIDE DEF w
  <2>5. QED
      BY <1>1, <1>3, <2>1, <2>3, <2>4, WriterKeeps
<1>8. CASE A!EndRebuild(a)
  <2> DEFINE w == [writer[a] EXCEPT !.pc = "update"]
  <2>1. w \in Writers /\ w.items = writer[a].items
      BY <1>1, WriterAt DEF AuditPoints
  <2>2. A!Become(a, "rebuild", w) /\ writer[a].pc = "rebuild"
        /\ UNCHANGED <<saves, artifact, index, dead, overlapped>>
      BY <1>8 DEF A!EndRebuild, A!Goto, A!Become
  <2> HIDE DEF w
  <2>3. QED
      BY <1>1, <1>3, <2>1, <2>2, WriterKeeps
<1>9. CASE A!OpenIndex(a)
  <2> DEFINE items == [writer[a].items EXCEPT ![a] = saves[a]]
             w == [pc |-> "flush", items |-> items, unread |-> {}]
  <2>1. A!Become(a, "update", w) /\ writer[a].pc = "update"
        /\ UNCHANGED <<saves, artifact, dead, overlapped>>
        /\ index' = [index EXCEPT !.state = "empty"]
      BY <1>9 DEF A!OpenIndex, A!Become
  <2>2. items \in [A!Audits -> A!Saves] /\ \A c \in A!Audits : items[c] <= artifact[c].save
      BY <1>1, <1>3, <2>1
  <2> HIDE DEF items
  <2>3. w \in Writers /\ w.items = items
      BY <1>4, <2>2 DEF AuditPoints
  <2>4. index' \in Indexes /\ index'.items = index.items
      BY <1>1, <2>1, IndexIn DEF A!FileStates
  <2> HIDE DEF w
  <2>5. QED
      BY <1>1, <1>3, <2>1, <2>2, <2>3, <2>4, WriterKeeps
<1>10. CASE A!WriteIndex(a)
  <2>1. A!Become(a, "flush", A!AtRest) /\ UNCHANGED <<saves, artifact, dead, overlapped>>
      BY <1>10 DEF A!WriteIndex
  <2>2. PICK state \in A!FileStates : index' = [state |-> state, items |-> writer[a].items]
      BY <1>10 DEF A!WriteIndex, A!Overwritten, A!FileStates
  <2>3. index' \in Indexes /\ index'.items = writer[a].items
      BY <1>1, <2>2, IndexIs
  <2>4. A!AtRest \in Writers /\ A!AtRest.items = A!NoEntries /\ A!AtRest.pc = "idle"
      BY <1>2, <1>4 DEF A!AtRest, AuditPoints
  <2>5. QED
      BY <1>1, <1>2, <2>1, <2>3, <2>4, WriterKeeps
<1>11. QED
    BY <1>5, <1>6, <1>7, <1>8, <1>9, <1>10

LEMMA AuditNextIInv == ASSUME A!IsAuditBounds, AuditIInv, [A!Next]_(A!vars) PROVE AuditIInv'
<1>1. CASE \E a \in A!Audits : A!Save(a)
    BY <1>1, BeginSaveKeeps, WriteArtifactKeeps, UpdateKeeps DEF A!Save
<1>2. CASE A!Crash
    BY <1>2 DEF A!Crash, AuditIInv, AuditTypes, ArtifactFirst, EntriesBehind
<1>3. CASE UNCHANGED A!vars
    BY <1>3 DEF A!vars, AuditIInv, AuditTypes, ArtifactFirst, EntriesBehind
<1>4. QED
    BY <1>1, <1>2, <1>3 DEF A!Next

-----------------------------------------------------------------------------
(* The audit store: without overlap *)

LEMMA AuditInitSerial == ASSUME A!IsAuditBounds, A!Init PROVE AuditSerialInv
BY DEF A!Init, AuditSerialInv, ArtifactSettled, OneSaver, IndexExact, Exact, CopyExact,
       A!Saving,
       A!AtRest, A!NoEntries, A!Audits

LEMMA AuditSerialBegin ==
    ASSUME A!IsAuditBounds, AuditIInv, AuditSerialInv, NEW a \in A!Audits, A!BeginSave(a)
    PROVE  AuditSerialInv'
<1> DEFINE w == [writer[a] EXCEPT !.pc = "artifact"]
<1>1. /\ saves' = [saves EXCEPT ![a] = @ + 1]
      /\ artifact' = [artifact EXCEPT ![a].state = "empty"]
      /\ writer' = [writer EXCEPT ![a] = w]
      /\ overlapped' = (overlapped \/ \E b \in A!Audits \ dead : A!Saving(b))
      /\ a \notin dead /\ UNCHANGED <<index, dead>>
    BY DEF A!BeginSave, A!NextSave, A!Goto, A!Become
<1>2. w.pc = "artifact" /\ w \in Writers
    BY WriterAt DEF AuditIInv, AuditTypes, AuditPoints
<1> HIDE DEF w
<1>3. /\ \A b \in A!Audits : b # a => writer'[b] = writer[b] /\ artifact'[b] = artifact[b]
                                            /\ saves'[b] = saves[b]
      /\ writer'[a] = w /\ saves'[a] = saves[a] + 1 /\ saves[a] \in Nat
    BY <1>1 DEF AuditIInv, AuditTypes, A!Saves, A!IsAuditBounds
<1>4. ArtifactSettled'
    BY <1>2, <1>3 DEF AuditSerialInv, ArtifactSettled, A!Saving
<1>5. OneSaver'
    BY <1>1, <1>3 DEF AuditSerialInv, OneSaver, A!Saving
<1>6. A!Saving(a)' /\ \A b \in A!Audits : ~A!Saving(b)' => b # a /\ ~A!Saving(b)
    BY <1>2, <1>3 DEF A!Saving
<1>7. IndexExact'
  <2> SUFFICES ASSUME ~overlapped'
               PROVE  /\ index'.state = "whole" => Exact(index.items, {})'
                      /\ \A c \in A!Audits \ dead : CopyExact(c)'
      BY <1>1 DEF IndexExact
  <2>1. index'.state = "whole" => Exact(index.items, {})'
      BY <1>1, <1>3, <1>6 DEF AuditSerialInv, IndexExact, Exact
  <2>2. ASSUME NEW c \in A!Audits \ dead PROVE CopyExact(c)'
    <3>1. writer'[c].pc \in {"idle", "artifact"}
        BY <1>1, <1>2, <1>3 DEF A!Saving
    <3>2. QED
        BY <3>1 DEF CopyExact
  <2>3. QED
      BY <2>1, <2>2
<1>8. QED
    BY <1>4, <1>5, <1>7 DEF AuditSerialInv

LEMMA SerialWriteArtifact ==
    ASSUME A!IsAuditBounds, AuditIInv, AuditSerialInv, NEW a \in A!Audits,
           A!WriteArtifact(a)
    PROVE  AuditSerialInv'
<1> DEFINE w == [writer[a] EXCEPT !.pc = "index"]
<1>1. /\ artifact' = [artifact EXCEPT ![a] = [state |-> "whole", save |-> saves[a]]]
      /\ writer' = [writer EXCEPT ![a] = w] /\ writer[a].pc = "artifact"
      /\ UNCHANGED <<saves, index, dead, overlapped>>
    BY DEF A!WriteArtifact, A!Goto, A!Become
<1>2. w.pc = "index" /\ w \in Writers
    BY WriterAt DEF AuditIInv, AuditTypes, AuditPoints
<1> HIDE DEF w
<1>3. /\ \A b \in A!Audits : b # a => writer'[b] = writer[b] /\ artifact'[b] = artifact[b]
      /\ writer'[a] = w /\ A!Saving(a)
      /\ artifact'[a] = [state |-> "whole", save |-> saves[a]]
    BY <1>1 DEF AuditIInv, AuditTypes, A!Saving
<1>4. \A b \in A!Audits : A!Saving(b)' <=> A!Saving(b)
    BY <1>2, <1>3 DEF A!Saving
<1>5. ArtifactSettled'
  <2>1. saves[a] > 0
      BY <1>3 DEF AuditSerialInv, ArtifactSettled
  <2>2. saves[a] # 0
      BY <2>1 DEF AuditIInv, AuditTypes, A!Saves
  <2>3. QED
      BY <1>1, <1>2, <1>3, <1>4, <2>1, <2>2 DEF AuditSerialInv, ArtifactSettled
<1>6. OneSaver'
    BY <1>1, <1>4 DEF AuditSerialInv, OneSaver
<1>7. IndexExact'
    BY <1>1, <1>2, <1>3, <1>4 DEF AuditSerialInv, IndexExact, Exact, CopyExact
<1>8. QED
    BY <1>5, <1>6, <1>7 DEF AuditSerialInv

\* The one saver goes on from its artifact, leaving the index and its own copy exact.
LEMMA SerialKeeps ==
    ASSUME AuditIInv, AuditSerialInv, NEW a \in A!Audits, NEW from, NEW w \in Writers,
           A!Become(a, from, w),
           from # "idle", from # "artifact", w.pc # "artifact",
           UNCHANGED <<saves, artifact, dead, overlapped>>,
           ~overlapped /\ index'.state = "whole" => Exact(index.items, {})',
           ~overlapped => CopyExact(a)'
    PROVE  AuditSerialInv'
<1>1. /\ a \notin dead /\ A!Saving(a) /\ writer'[a] = w
      /\ writer[a].pc # "artifact"
      /\ \A b \in A!Audits : b # a => writer'[b] = writer[b]
    BY DEF A!Become, AuditIInv, AuditTypes, A!Saving
<1>2. \A b \in A!Audits : A!Saving(b)' => A!Saving(b)
    BY <1>1 DEF A!Saving
<1>3. ArtifactSettled'
    BY <1>1, <1>2 DEF AuditSerialInv, ArtifactSettled
<1>4. OneSaver'
    BY <1>2 DEF AuditSerialInv, OneSaver
<1>5. ASSUME ~overlapped, NEW c \in A!Audits \ dead, c # a PROVE CopyExact(c)'
  <2>1. ~A!Saving(c)
      BY <1>1, <1>5 DEF AuditSerialInv, OneSaver
  <2>2. writer'[c].pc = "idle"
      BY <1>1, <1>5, <2>1 DEF A!Saving
  <2>3. QED
      BY <2>2 DEF CopyExact
<1>6. IndexExact'
    BY <1>5 DEF IndexExact
<1>7. QED
    BY <1>3, <1>4, <1>6 DEF AuditSerialInv

LEMMA SerialUpdate ==
    ASSUME A!IsAuditBounds, AuditIInv, AuditSerialInv, NEW a \in A!Audits,
           \/ A!ReadIndex(a) \/ A!RebuildIndex(a) \/ A!ReadArtifact(a) \/ A!EndRebuild(a)
           \/ A!OpenIndex(a) \/ A!WriteIndex(a)
    PROVE  AuditSerialInv'
<1>1. /\ writer[a] \in Writers /\ index \in Indexes
      /\ writer[a].items \in [A!Audits -> A!Saves] /\ index.items \in [A!Audits -> A!Saves]
      /\ writer[a].unread \in SUBSET A!Audits
      /\ A!NoEntries \in [A!Audits -> A!Saves]
      /\ A!OnDisk \in SUBSET A!Audits
    BY Nothing DEF AuditIInv, AuditTypes, Writers, Indexes, A!OnDisk
<1>2. \A p \in AuditPoints, items \in [A!Audits -> A!Saves], unread \in SUBSET A!Audits :
          LET w == [pc |-> p, items |-> items, unread |-> unread]
          IN  w \in Writers /\ w.pc = p /\ w.items = items /\ w.unread = unread
    BY WriterIs
\* An artifact that is not inside a save says what was saved.
<1>3. \A b \in A!Audits : ~A!Saving(b) =>
          saves[b] = (IF A!Readable(b) THEN artifact[b].save ELSE 0)
    BY DEF AuditSerialInv, ArtifactSettled, A!Saving, A!Readable
<1>4. \A w \in Writers, b \in A!Audits : writer' = [writer EXCEPT ![a] = w] =>
          /\ writer'[a] = w
          /\ ~A!Saving(b)' => ~A!Saving(b) \/ (b = a /\ w.pc = "idle")
    BY DEF AuditIInv, AuditTypes, A!Saving
<1>5. \A items, b, unread : Exact(items, unread) /\ b \in A!Audits /\ ~A!Saving(b) /\ b \notin unread
          => items[b] = saves[b]
    BY DEF Exact
<1>6. CASE A!ReadIndex(a)
  <2> DEFINE w == [pc |-> "update", items |-> index.items, unread |-> {}]
  <2>1. w \in Writers /\ w.items = index.items /\ w.pc = "update"
      BY <1>1, <1>2 DEF AuditPoints
  <2>2. A!Become(a, "index", w) /\ index.state = "whole" /\ writer' = [writer EXCEPT ![a] = w]
        /\ UNCHANGED <<saves, artifact, index, dead, overlapped>>
      BY <1>6 DEF A!ReadIndex, A!Become
  <2> HIDE DEF w
  <2>3. ~overlapped => Exact(index.items, {})'
      BY <1>4, <2>1, <2>2 DEF Exact, AuditSerialInv, IndexExact
  <2>4. ~overlapped => CopyExact(a)'
    <3>1. writer'[a] = w /\ writer'[a].pc = "update" /\ writer'[a].items = index'.items
        BY <1>4, <2>1, <2>2
    <3>2. QED
        BY <2>2, <2>3, <3>1 DEF CopyExact, Exact
  <2>5. QED
      BY <2>1, <2>2, <2>3, <2>4, SerialKeeps
<1>7. CASE A!RebuildIndex(a)
  <2> DEFINE w == [pc |-> "rebuild", items |-> A!NoEntries, unread |-> A!OnDisk]
  <2>1. w \in Writers /\ w.items = A!NoEntries /\ w.pc = "rebuild" /\ w.unread = A!OnDisk
      BY <1>1, <1>2 DEF AuditPoints
  <2>2. A!Become(a, "index", w) /\ index.state # "whole" /\ writer' = [writer EXCEPT ![a] = w]
        /\ UNCHANGED <<saves, artifact, index, dead, overlapped>>
      BY <1>7 DEF A!RebuildIndex, A!Become
  <2> HIDE DEF w
  <2>3. \A b \in A!Audits : ~A!Saving(b) /\ b \notin A!OnDisk => saves[b] = 0 /\ A!NoEntries[b] = 0
      BY DEF AuditSerialInv, ArtifactSettled, A!OnDisk, A!Saving, A!NoEntries
  <2>4. CopyExact(a)'
      BY <1>4, <2>1, <2>2, <2>3 DEF CopyExact, Exact
  <2>5. QED
      BY <2>1, <2>2, <2>4, SerialKeeps
<1>8. CASE A!ReadArtifact(a)
  <2> DEFINE b == A!Min(writer[a].unread)
             save == IF A!Readable(b) THEN artifact[b].save ELSE 0
             items == [writer[a].items EXCEPT ![b] = save]
             unread == writer[a].unread \ {b}
             w == [pc |-> "rebuild", items |-> items, unread |-> unread]
  <2>1. A!Become(a, "rebuild", w) /\ writer[a].pc = "rebuild"
        /\ writer' = [writer EXCEPT ![a] = w]
        /\ UNCHANGED <<saves, artifact, index, dead, overlapped>>
      BY <1>8 DEF A!ReadArtifact, A!Become
  <2>2. \A c \in A!Audits : items[c] = IF c = b THEN save ELSE writer[a].items[c]
      BY <1>1
  <2>3. items \in [A!Audits -> A!Saves] /\ unread \in SUBSET A!Audits
    <3>1. b \in A!Audits => save \in A!Saves
        BY DEF AuditIInv, AuditTypes, A!Saves, A!IsAuditBounds
    <3> HIDE DEF save, b
    <3>2. QED
        BY <1>1, <3>1
  <2>4. \A c \in A!Audits : ~A!Saving(c) /\ c = b => saves[c] = save
      BY <1>3
  <2>5. \A c : c \notin unread => c = b \/ c \notin writer[a].unread
      OBVIOUS
  <2> HIDE DEF items, unread, save, b
  <2>6. w \in Writers /\ w.items = items /\ w.pc = "rebuild" /\ w.unread = unread
      BY <1>2, <2>3 DEF AuditPoints
  <2> HIDE DEF w
  <2>7. ~overlapped => Exact(writer[a].items, writer[a].unread)
      BY <2>1 DEF AuditSerialInv, IndexExact, CopyExact, A!Become
  <2>8. ASSUME ~overlapped, NEW c \in A!Audits, ~A!Saving(c)', c \notin unread
        PROVE  items[c] = saves'[c]
    <3>1. ~A!Saving(c) /\ saves'[c] = saves[c]
        BY <1>4, <2>1, <2>6, <2>8
    <3>2. CASE c = b
        BY <2>2, <2>4, <3>1, <3>2
    <3>3. CASE c # b
      <4>1. writer[a].items[c] = saves[c]
          BY <1>5, <2>5, <2>7, <2>8, <3>1, <3>3
      <4>2. QED
          BY <2>2, <3>1, <3>3, <4>1
    <3>4. QED
        BY <3>2, <3>3
  <2>9. ~overlapped => CopyExact(a)'
      BY <1>4, <2>1, <2>6, <2>8 DEF CopyExact, Exact
  <2>10. ~overlapped /\ index'.state = "whole" => Exact(index.items, {})'
      BY <1>4, <2>1, <2>6 DEF Exact, AuditSerialInv, IndexExact
  <2>11. QED
      BY <2>1, <2>6, <2>9, <2>10, SerialKeeps
<1>9. CASE A!EndRebuild(a)
  <2> DEFINE w == [writer[a] EXCEPT !.pc = "update"]
  <2>1. w \in Writers /\ w.items = writer[a].items /\ w.pc = "update"
      BY <1>1, WriterAt DEF AuditPoints
  <2>2. A!Become(a, "rebuild", w) /\ writer[a].pc = "rebuild" /\ writer[a].unread = {}
        /\ writer' = [writer EXCEPT ![a] = w]
        /\ UNCHANGED <<saves, artifact, index, dead, overlapped>>
      BY <1>9 DEF A!EndRebuild, A!Goto, A!Become
  <2> HIDE DEF w
  <2>3. ~overlapped => Exact(writer[a].items, {})
      BY <2>2 DEF AuditSerialInv, IndexExact, CopyExact, A!Become
  <2>4. ~overlapped => CopyExact(a)'
      BY <1>4, <2>1, <2>2, <2>3 DEF CopyExact, Exact
  <2>5. ~overlapped /\ index'.state = "whole" => Exact(index.items, {})'
      BY <1>4, <2>1, <2>2 DEF Exact, AuditSerialInv, IndexExact
  <2>6. QED
      BY <2>1, <2>2, <2>4, <2>5, SerialKeeps
<1>10. CASE A!OpenIndex(a)
  <2> DEFINE items == [writer[a].items EXCEPT ![a] = saves[a]]
             w == [pc |-> "flush", items |-> items, unread |-> {}]
  <2>1. A!Become(a, "update", w) /\ writer[a].pc = "update"
        /\ UNCHANGED <<saves, artifact, dead, overlapped>>
        /\ index' = [index EXCEPT !.state = "empty"]
        /\ writer' = [writer EXCEPT ![a] = w]
      BY <1>10 DEF A!OpenIndex, A!Become
  <2>2. items \in [A!Audits -> A!Saves] /\ saves[a] \in A!Saves
        /\ \A c \in A!Audits : items[c] = IF c = a THEN saves[a] ELSE writer[a].items[c]
      BY <1>1 DEF AuditIInv, AuditTypes
  <2> HIDE DEF items
  <2>3. w \in Writers /\ w.items = items /\ w.pc = "flush"
      BY <1>2, <2>2 DEF AuditPoints
  <2>4. index'.state = "empty"
      BY <1>1, <2>1 DEF Indexes
  <2> HIDE DEF w
  <2>5. ~overlapped => Exact(writer[a].items, {})
      BY <2>1 DEF AuditSerialInv, IndexExact, CopyExact, A!Become
  <2>6. ~overlapped => CopyExact(a)'
      BY <1>4, <2>1, <2>2, <2>3, <2>4, <2>5 DEF CopyExact, Exact
  <2>7. QED
      BY <2>1, <2>3, <2>4, <2>6, SerialKeeps
<1>11. CASE A!WriteIndex(a)
  <2>1. A!Become(a, "flush", A!AtRest) /\ UNCHANGED <<saves, artifact, dead, overlapped>>
        /\ writer' = [writer EXCEPT ![a] = A!AtRest] /\ writer[a].pc = "flush"
      BY <1>11 DEF A!WriteIndex, A!Become
  <2>2. PICK state : index' = [state |-> state, items |-> writer[a].items]
      BY <1>11 DEF A!WriteIndex
  <2>3. A!AtRest \in Writers /\ A!AtRest.pc = "idle"
      BY <1>1, <1>2 DEF A!AtRest, AuditPoints
  <2>4. ~overlapped => Exact(writer[a].items, {}) /\ writer[a].items[a] = saves[a]
      BY <2>1 DEF AuditSerialInv, IndexExact, CopyExact, A!Become
  <2>5. ~overlapped => Exact(index.items, {})'
      BY <1>4, <2>1, <2>2, <2>3, <2>4 DEF Exact
  <2>6. CopyExact(a)'
      BY <1>4, <2>1, <2>3 DEF CopyExact
  <2>7. QED
      BY <2>1, <2>3, <2>5, <2>6, SerialKeeps
<1>12. QED
    BY <1>6, <1>7, <1>8, <1>9, <1>10, <1>11

LEMMA AuditNextSerial ==
    ASSUME A!IsAuditBounds, AuditIInv, AuditSerialInv, [A!Next]_(A!vars)
    PROVE  AuditSerialInv'
<1>1. CASE \E a \in A!Audits : A!Save(a)
    BY <1>1, AuditSerialBegin, SerialWriteArtifact, SerialUpdate DEF A!Save
<1>2. CASE A!Crash
  <2>1. UNCHANGED <<saves, artifact, index, writer, overlapped>> /\ dead \subseteq dead'
      BY <1>2 DEF A!Crash
  <2>2. QED
      BY <2>1 DEF AuditSerialInv, ArtifactSettled, OneSaver, IndexExact, Exact,
                  CopyExact, A!Saving
<1>3. CASE UNCHANGED A!vars
    BY <1>3 DEF A!vars, AuditSerialInv, ArtifactSettled, OneSaver, IndexExact, Exact,
                CopyExact, A!Saving
<1>4. QED
    BY <1>1, <1>2, <1>3 DEF A!Next

LEMMA BehindIsInvariant == ASSUME A!IsAuditBounds, AuditIInv PROVE A!ListingBehindArtifact
BY DEF AuditIInv, AuditTypes, Indexes, EntriesBehind, A!ListingBehindArtifact, A!Listing,
       A!Saves,
       A!IsAuditBounds

LEMMA AuditSerialIsInvariant == ASSUME AuditIInv, AuditSerialInv PROVE A!SerialListingExact
<1> SUFFICES ASSUME ~overlapped, NEW a \in A!Audits, ~A!Saving(a) PROVE A!Listing[a] = saves[a]
    BY DEF A!SerialListingExact
<1>1. saves[a] = (IF A!Readable(a) THEN artifact[a].save ELSE 0)
    BY DEF AuditSerialInv, ArtifactSettled, A!Saving, A!Readable
<1>2. index.state = "whole" => index.items[a] = saves[a]
    BY DEF AuditSerialInv, IndexExact, Exact
<1>3. QED
    BY <1>1, <1>2 DEF A!Listing

-----------------------------------------------------------------------------
(* The user store: the invariants *)

UserPoints == {"idle", "booting", "hashing", "writing", "done", "refused", "raised"}
States == {"whole", "empty", "mixed"}
Files  == [state: States, data: U!Data]
Runs   == [pc: UserPoints, presents: U!Passwords \union {U!NoUser, U!Vouched}, data: U!Data]

UserTypes ==
    /\ file \in Files
    /\ now \in 0..MaxTime
    /\ thread \in [U!Threads -> Runs]
    /\ answered \in SUBSET U!Tokens
    /\ acknowledged \in [password: U!Passwords \union {U!NoUser}, role: U!Roles]
    /\ dead \in SUBSET Logins
    /\ overlapped \in BOOLEAN

\* Somebody has begun to write the password p, or nobody had to.
Begun(p) == p \in {U!NoUser, U!Boot} \/ thread[p].pc \in {"writing", "done"}

\* The request of token k was vouched for, or showed such a password.
Earned(k) ==
    /\ thread[k.login].pc \in {"writing", "done"}
    /\ \/ thread[k.login].presents = U!Vouched
       \/ /\ thread[k.login].presents \in U!Passwords
          /\ thread[k.login].presents # U!NoUser
          /\ Begun(thread[k.login].presents)

Sound(d) == Begun(d.password) /\ \A k \in d.tokens : Earned(k)

\* The file and every copy that is about to replace it are sound.
DataSound == Sound(file.data) /\ \A t \in U!Threads : Sound(thread[t].data)

\* A login that writes has a token of its own to return.
HasToken ==
    \A l \in Logins : thread[l].pc = "writing" =>
        \E k \in thread[l].data.tokens : k.login = l

UserIInv == UserTypes /\ DataSound /\ HasToken

\* As long as no rewritings have overlapped, one thread at most is inside one.
OneRewriter == \A t, u \in U!Threads : U!Active(t) /\ U!Active(u) => t = u

\* The data have what was acknowledged: its password and its role, and every token
\* returned that has not expired.
HoldsTokens(d) == \A k \in answered : k.expires > now => k \in d.tokens
Holds(d) ==
    /\ d.password = acknowledged.password /\ d.role = acknowledged.role
    /\ HoldsTokens(d)

\* What a thread is about to write: a login what was acknowledged, the others what
\* will be when they have ended.
Prepared(t) ==
    /\ HoldsTokens(thread[t].data)
    /\ t \in Logins => Holds(thread[t].data)
    /\ t \in U!Passwords =>
          thread[t].data.password = t /\ thread[t].data.role = U!RoleAsked(t)

FileHolds == file.state # "mixed" /\ (file.state = "whole" => Holds(file.data))

\* The one thread has read the file as it is, or has it open; a rival has read
\* nothing, and nobody has a token yet.
ThreadHolds(t) ==
    /\ thread[t].pc = "hashing" =>
          /\ file.state = "whole"
          /\ IF t \in Rivals THEN answered = {} ELSE thread[t].data = file.data
    /\ thread[t].pc = "writing" => file.state = "empty" /\ Prepared(t)

UserSerialInv ==
    ~overlapped => /\ OneRewriter /\ FileHolds
                   /\ \A t \in U!Threads : U!Active(t) => ThreadHolds(t)

-----------------------------------------------------------------------------
(* The user store: records *)

LEMMA RunIs ==
    ASSUME NEW p \in UserPoints, NEW x \in U!Passwords \union {U!NoUser, U!Vouched},
           NEW d \in U!Data
    PROVE  LET r == [pc |-> p, presents |-> x, data |-> d]
           IN  r \in Runs /\ r.pc = p /\ r.presents = x /\ r.data = d
BY DEF Runs

LEMMA FileIs ==
    ASSUME NEW st \in States, NEW d \in U!Data
    PROVE  LET f == [state |-> st, data |-> d] IN f \in Files /\ f.data = d
BY DEF Files

LEMMA WithTokens ==
    ASSUME NEW e \in U!Data, NEW ks \in SUBSET U!Tokens
    PROVE  \E d \in U!Data : d = [e EXCEPT !.tokens = ks] /\ d.tokens = ks /\ d.password = e.password
<1>1. [e EXCEPT !.tokens = ks] \in U!Data
    BY DEF U!Data
<1>2. \A d : d = [e EXCEPT !.tokens = ks] => d.tokens = ks /\ d.password = e.password
    BY DEF U!Data
<1>3. QED
    BY <1>1, <1>2

LEMMA WithPassword ==
    ASSUME NEW e \in U!Data, NEW p \in U!Passwords
    PROVE  \E d \in U!Data : d = [e EXCEPT !.password = p] /\ d.tokens = e.tokens /\ d.password = p
<1>1. [e EXCEPT !.password = p] \in U!Data
    BY DEF U!Data
<1>2. \A d : d = [e EXCEPT !.password = p] => d.tokens = e.tokens /\ d.password = p
    BY DEF U!Data
<1>3. QED
    BY <1>1, <1>2

LEMMA NoDataSound == U!NoData \in U!Data /\ Sound(U!NoData)
BY DEF U!NoData, U!Data, U!Roles, U!ROLE_PERMISSIONS, Sound, Begun

-----------------------------------------------------------------------------
(* The user store: one step of a thread *)

\* A thread other than the start of the server never takes back what it wrote.
LEMMA ForwardKeeps ==
    ASSUME U!IsUserBounds, UserTypes, NEW t \in U!Threads, NEW r \in Runs,
           thread' = [thread EXCEPT ![t] = r],
           \/ t = U!Boot
           \/ thread[t].pc \notin {"writing", "done"}
           \/ r.pc \in {"writing", "done"} /\ r.presents = thread[t].presents
    PROVE  /\ \A p \in U!Passwords \union {U!NoUser} : Begun(p) => Begun(p)'
           /\ \A k \in U!Tokens : Earned(k) => Earned(k)'
           /\ \A d \in U!Data : Sound(d) => Sound(d)'
<1>1. thread \in [U!Threads -> Runs] /\ \A u \in U!Threads : u # t => thread'[u] = thread[u]
    BY DEF UserTypes
<1>2. thread'[t] = r
    BY <1>1
<1>3. \A p \in U!Passwords \union {U!NoUser} : Begun(p) => Begun(p)'
    BY <1>1, <1>2 DEF Begun, U!Threads
<1>4. \A k \in U!Tokens : Earned(k) => Earned(k)'
  <2> SUFFICES ASSUME NEW k \in U!Tokens, Earned(k) PROVE Earned(k)'
      OBVIOUS
  <2>1. k.login \in Logins /\ k.login # U!Boot /\ k.login \in U!Threads
      BY DEF U!Tokens, U!IsUserBounds, U!Passwords, U!Threads
  <2>2. /\ thread'[k.login].pc \in {"writing", "done"}
        /\ thread'[k.login].presents = thread[k.login].presents
      BY <1>1, <1>2, <2>1 DEF Earned
  <2>3. QED
      BY <1>3, <2>2 DEF Earned
<1>5. \A d \in U!Data : Sound(d) => Sound(d)'
    BY <1>3, <1>4 DEF Sound, U!Data
<1>6. QED
    BY <1>3, <1>4, <1>5

\* Thread t becomes r, with sound data, and the file is left alone or overwritten
\* by data that is sound.
LEMMA StepKeeps ==
    ASSUME U!IsUserBounds, UserIInv, NEW t \in U!Threads, NEW r \in Runs,
           thread' = [thread EXCEPT ![t] = r],
           \/ t = U!Boot
           \/ thread[t].pc \notin {"writing", "done"}
           \/ r.pc \in {"writing", "done"} /\ r.presents = thread[t].presents,
           Sound(r.data)',
           t \in Logins /\ r.pc = "writing" => \E k \in r.data.tokens : k.login = t,
           file' \in Files, Sound(file'.data) \/ file'.data = file.data,
           now' = now, answered' \in SUBSET U!Tokens,
           acknowledged' \in [password: U!Passwords \union {U!NoUser}, role: U!Roles],
           dead' = dead, overlapped' \in BOOLEAN
    PROVE  UserIInv'
<1>1. /\ \A d \in U!Data : Sound(d) => Sound(d)'
      /\ thread \in [U!Threads -> Runs]
    BY ForwardKeeps DEF UserIInv, UserTypes
<1>2. UserTypes'
    BY <1>1 DEF UserIInv, UserTypes
<1>3. thread'[t] = r /\ \A u \in U!Threads : u # t => thread'[u] = thread[u]
    BY <1>1
<1>4. DataSound'
  <2>1. Sound(file.data)'
    <3>1. PICK d \in U!Data : d = file'.data
        BY DEF Files
    <3>2. Sound(d)
        BY <3>1 DEF UserIInv, DataSound
    <3>3. Sound(d)'
        BY <1>1, <3>2
    <3>4. QED
        BY <3>1, <3>3 DEF Sound
  <2>2. ASSUME NEW u \in U!Threads PROVE Sound(thread[u].data)'
    <3>1. CASE u = t
        BY <1>3, <3>1 DEF Sound
    <3>2. CASE u # t
      <4>1. PICK d \in U!Data : d = thread[u].data
          BY <1>1 DEF Runs
      <4>2. Sound(d)
          BY <4>1 DEF UserIInv, DataSound
      <4>3. Sound(d)'
          BY <1>1, <4>2
      <4>4. QED
          BY <1>3, <3>2, <4>1, <4>3 DEF Sound
    <3>3. QED
        BY <3>1, <3>2
  <2>3. QED
      BY <2>1, <2>2 DEF DataSound
<1>5. HasToken'
    BY <1>3 DEF UserIInv, HasToken, U!Threads
<1>6. QED
    BY <1>2, <1>4, <1>5 DEF UserIInv

-----------------------------------------------------------------------------
(* The user store: the actions *)

LEMMA UserInitIInv == ASSUME U!IsUserBounds, U!Init PROVE UserIInv
<1>1. U!NoData \in U!Data /\ Sound(U!NoData)
    BY NoDataSound
<1>2. U!Idle \in Runs /\ U!Idle.pc = "idle" /\ U!Idle.data = U!NoData
    BY <1>1, RunIs DEF U!Idle, UserPoints
<1>3. file \in Files /\ file.data = U!NoData
    BY <1>1, FileIs DEF U!Init, States
<1>4. /\ thread \in [U!Threads -> Runs]
      /\ \A t \in U!Threads : /\ thread[t].data = U!NoData
                             /\ thread[t].pc \in {"idle", "hashing", "refused"}
  <2>1. ASSUME NEW to \in {"idle", "hashing", "refused"}
        PROVE  LET run == [U!Idle EXCEPT !.pc = to]
               IN  run \in Runs /\ run.pc = to /\ run.data = U!NoData
      BY <1>2 DEF Runs, UserPoints
  <2>2. PICK here \in Arrivals :
           thread = [t \in U!Threads |-> [U!Idle EXCEPT !.pc = U!Arrived(here, t)]]
      BY DEF U!Init
  <2>3. ASSUME NEW t \in U!Threads
        PROVE  \E to \in {"idle", "hashing", "refused"} :
                  thread[t] = [U!Idle EXCEPT !.pc = to]
      BY <2>2 DEF U!Arrived
  <2>4. QED
      BY <2>1, <2>2, <2>3
<1>5. UserTypes
  <2>1. now \in 0..MaxTime
      BY DEF U!Init, U!IsUserBounds
  <2>2. acknowledged \in [password: U!Passwords \union {U!NoUser}, role: U!Roles]
      BY DEF U!Init, U!Roles, U!ROLE_PERMISSIONS
  <2>3. answered \in SUBSET U!Tokens /\ dead \in SUBSET Logins /\ overlapped \in BOOLEAN
      BY DEF U!Init
  <2>4. QED
      BY <1>3, <1>4, <2>1, <2>2, <2>3 DEF UserTypes
<1>6. DataSound
    BY <1>1, <1>2, <1>3, <1>4 DEF DataSound
<1>7. HasToken
    BY <1>2, <1>4 DEF HasToken, U!Threads
<1>8. QED
    BY <1>5, <1>6, <1>7 DEF UserIInv

LEMMA BeginReadKeeps ==
    ASSUME U!IsUserBounds, UserIInv, NEW t \in U!Threads, NEW from \in {"idle", "booting"},
           NEW x \in U!Passwords \union {U!NoUser, U!Vouched},
           NEW to \in {"hashing", "booting", "done"}, t = U!Boot \/ to = "hashing",
           U!BeginRead(t, from, x, to)
    PROVE  UserIInv'
<1>1. PICK p \in {to, "raised"} :
          thread' = [thread EXCEPT ![t] = [pc |-> p, presents |-> x, data |-> file.data]]
    BY DEF U!BeginRead
<1>2. PICK d \in U!Data : d = file.data /\ Sound(d)
    BY DEF UserIInv, UserTypes, Files, DataSound
<1> DEFINE r == [pc |-> p, presents |-> x, data |-> d]
<1>3. r \in Runs /\ r.pc = p /\ r.data = d
    BY RunIs DEF UserPoints
<1>4. thread' = [thread EXCEPT ![t] = r] /\ thread[t].pc = from
    BY <1>1, <1>2 DEF U!BeginRead
<1> HIDE DEF r
<1>5. Sound(r.data)'
    BY <1>2, <1>3, <1>4, ForwardKeeps DEF UserIInv
<1>6. ~(t \in Logins /\ r.pc = "writing")
    BY <1>3
<1>7. /\ UNCHANGED <<file, now, answered, acknowledged, dead>>
      /\ overlapped' \in BOOLEAN
    BY DEF U!BeginRead, UserIInv, UserTypes
<1>8. QED
    BY <1>3, <1>4, <1>5, <1>6, <1>7, StepKeeps DEF UserIInv, UserTypes

\* A thread that has read goes on to write data d, or stops with what it read.
LEMMA HashedKeeps ==
    ASSUME U!IsUserBounds, UserIInv, NEW t \in U!Threads, NEW to \in {"writing", "refused"},
           NEW d \in U!Data, U!Goto(t, "hashing", to, d), Sound(d)',
           t \in Logins /\ to = "writing" => \E k \in d.tokens : k.login = t,
           file' \in Files, file'.data = file.data,
           UNCHANGED <<now, answered, acknowledged, dead, overlapped>>
    PROVE  UserIInv'
<1>0. PICK r : r = [thread[t] EXCEPT !.pc = to, !.data = d]
    OBVIOUS
<1>1. thread' = [thread EXCEPT ![t] = r] /\ thread[t].pc = "hashing"
    BY <1>0 DEF U!Goto, UserIInv, UserTypes
<1>2. r \in Runs /\ r.pc = to /\ r.data = d
    BY <1>0 DEF UserIInv, UserTypes, Runs, UserPoints
<1>3. Sound(r.data)'
    BY <1>2
<1>4. QED
    BY <1>1, <1>2, <1>3, StepKeeps DEF UserIInv, UserTypes

\* What holds of the record of a thread that has read, when it becomes p.
LEMMA HashedIs ==
    ASSUME U!IsUserBounds, UserIInv, NEW t \in U!Threads, NEW to \in {"writing", "refused"},
           NEW d \in U!Data, U!Goto(t, "hashing", to, d)
    PROVE  /\ thread[t].data \in U!Data /\ Sound(thread[t].data)
           /\ thread'[t].pc = to /\ thread'[t].presents = thread[t].presents
           /\ \A p \in U!Passwords \union {U!NoUser} : Begun(p) => Begun(p)'
           /\ \A k \in U!Tokens : Earned(k) => Earned(k)'
           /\ \A e \in U!Data : Sound(e) => Sound(e)'
<1> DEFINE r == [thread[t] EXCEPT !.pc = to, !.data = d]
<1>1. thread' = [thread EXCEPT ![t] = r] /\ thread[t].pc = "hashing"
    BY DEF U!Goto, UserIInv, UserTypes
<1>2. r \in Runs /\ r.pc = to /\ r.presents = thread[t].presents
    BY DEF UserIInv, UserTypes, Runs, UserPoints
<1> HIDE DEF r
<1>3. thread'[t] = r
    BY <1>1 DEF UserIInv, UserTypes
<1>4. thread[t].data \in U!Data /\ Sound(thread[t].data)
    BY DEF UserIInv, UserTypes, Runs, DataSound
<1>5. QED
    BY <1>1, <1>2, <1>3, <1>4, ForwardKeeps DEF UserIInv

LEMMA RefuseKeeps ==
    ASSUME U!IsUserBounds, UserIInv, NEW t \in U!Threads,
           U!Goto(t, "hashing", "refused", thread[t].data),
           UNCHANGED <<file, now, answered, acknowledged, dead, overlapped>>
    PROVE  UserIInv'
<1>1. PICK d \in U!Data : d = thread[t].data
    BY DEF UserIInv, UserTypes, Runs
<1>2. U!Goto(t, "hashing", "refused", d)
    BY <1>1
<1>3. Sound(d)'
    BY <1>1, <1>2, HashedIs
<1>4. QED
    BY <1>2, <1>3, HashedKeeps DEF UserIInv, UserTypes

LEMMA OpenUsersKeeps ==
    ASSUME U!IsUserBounds, UserIInv, NEW t \in U!Threads, NEW d \in U!Data,
           U!OpenUsers(t, d),
           Sound(d)', t \in Logins => \E k \in d.tokens : k.login = t
    PROVE  UserIInv'
<1>1. file' \in Files /\ file'.data = file.data
    BY DEF U!OpenUsers, UserIInv, UserTypes, Files, States
<1>2. /\ U!Goto(t, "hashing", "writing", d)
      /\ UNCHANGED <<now, answered, acknowledged, dead, overlapped>>
    BY DEF U!OpenUsers
<1>3. QED
    BY <1>1, <1>2, HashedKeeps

LEMMA IssueTokenKeeps ==
    ASSUME U!IsUserBounds, UserIInv, NEW l \in Logins, U!IssueToken(l) PROVE UserIInv'
<1>1. l \in U!Threads /\ thread[l].data \in U!Data
    BY DEF U!Threads, UserIInv, UserTypes, Runs
<1>2. PICK k \in U!Tokens : k = [login |-> l, expires |-> now + TOKEN_TTL]
  <2>1. now + TOKEN_TTL \in U!Times
      BY DEF U!Times, U!IsUserBounds, UserIInv, UserTypes
  <2>2. QED
      BY <2>1 DEF U!Tokens
<1>3. PICK ks \in SUBSET U!Tokens :
          /\ ks = U!Valid(thread[l].data) \union {k}
          /\ ks \subseteq thread[l].data.tokens \union {k}
    BY <1>1, <1>2 DEF U!Valid, U!Data
<1>4. k.login = l /\ k \in ks
    BY <1>2, <1>3
<1>5. PICK d \in U!Data : /\ d = [thread[l].data EXCEPT !.tokens = ks]
                       /\ d.tokens = ks /\ d.password = thread[l].data.password
    BY <1>1, WithTokens
<1>6. U!OpenUsers(l, d) /\ U!Verified(l)
    BY <1>2, <1>3, <1>5 DEF U!IssueToken
<1>7. U!Goto(l, "hashing", "writing", d)
    BY <1>6 DEF U!OpenUsers
<1>8. /\ Sound(thread[l].data) /\ thread'[l].pc = "writing"
      /\ thread'[l].presents = thread[l].presents
      /\ \A p \in U!Passwords \union {U!NoUser} : Begun(p) => Begun(p)'
      /\ \A j \in U!Tokens : Earned(j) => Earned(j)'
    BY <1>1, <1>5, <1>7, HashedIs
<1>9. Earned(k)'
  <2>1. CASE thread[l].presents = U!Vouched
      BY <1>4, <1>8, <2>1 DEF Earned
  <2>2. CASE thread[l].presents = thread[l].data.password /\ thread[l].presents # U!NoUser
    <3>1. thread[l].presents \in U!Passwords /\ Begun(thread[l].presents)
        BY <1>1, <1>8, <2>2 DEF Sound, U!Data
    <3>2. PICK p \in U!Passwords : p = thread[l].presents
        BY <3>1
    <3>3. Begun(p)'
        BY <1>8, <3>1, <3>2
    <3>4. QED
        BY <1>4, <1>8, <2>2, <3>2, <3>3 DEF Earned
  <2>3. QED
      BY <1>6, <2>1, <2>2 DEF U!Verified
<1>10. Sound(d)'
  <2>1. PICK p \in U!Passwords \union {U!NoUser} : p = d.password
      BY <1>5 DEF U!Data
  <2>2. Begun(p)'
      BY <1>5, <1>8, <2>1 DEF Sound
  <2>3. \A j \in d.tokens : Earned(j)'
      BY <1>3, <1>5, <1>8, <1>9 DEF Sound
  <2>4. QED
      BY <2>1, <2>2, <2>3 DEF Sound
<1>11. QED
    BY <1>1, <1>4, <1>5, <1>6, <1>10, OpenUsersKeeps

\* The entry of the user gets password p and a role: ChangePassword, CreateUser.
LEMMA EntryKeeps ==
    ASSUME U!IsUserBounds, UserIInv, NEW p \in U!Passwords, NEW d \in U!Data,
           d.password = p, d.tokens = thread[p].data.tokens, U!OpenUsers(p, d)
    PROVE  UserIInv'
<1>1. p \in U!Threads /\ p \notin Logins
    BY DEF U!Threads, U!IsUserBounds
<1>2. U!Goto(p, "hashing", "writing", d)
    BY DEF U!OpenUsers
<1>3. /\ Sound(thread[p].data) /\ thread'[p].pc = "writing"
      /\ \A j \in U!Tokens : Earned(j) => Earned(j)'
    BY <1>1, <1>2, HashedIs
<1>4. Sound(d)'
  <2>1. Begun(p)'
      BY <1>3 DEF Begun
  <2>2. \A j \in d.tokens : Earned(j)'
      BY <1>3 DEF Sound, U!Data
  <2>3. QED
      BY <2>1, <2>2 DEF Sound
<1>5. QED
    BY <1>1, <1>4, OpenUsersKeeps

LEMMA WriteUsersKeeps ==
    ASSUME U!IsUserBounds, UserIInv, NEW t \in U!Threads, U!WriteUsers(t),
           answered' \in SUBSET U!Tokens,
           acknowledged' \in [password: U!Passwords \union {U!NoUser}, role: U!Roles]
    PROVE  UserIInv'
<1>0. PICK r : r = [thread[t] EXCEPT !.pc = "done", !.data = thread[t].data]
    OBVIOUS
<1>1. /\ thread' = [thread EXCEPT ![t] = r] /\ thread[t].pc = "writing"
      /\ UNCHANGED <<now, dead, overlapped>>
    BY <1>0 DEF U!WriteUsers, U!Goto, UserIInv, UserTypes
<1>2. /\ r \in Runs /\ r.pc = "done" /\ r.data = thread[t].data
      /\ r.presents = thread[t].presents
    BY <1>0 DEF UserIInv, UserTypes, Runs, UserPoints
<1>3. PICK d \in U!Data : d = thread[t].data /\ Sound(d)
    BY DEF UserIInv, UserTypes, Runs, DataSound
<1>4. PICK st \in States : file' = [state |-> st, data |-> thread[t].data]
    BY DEF U!WriteUsers, U!Overwritten, States
<1>5. file' \in Files /\ file'.data = d
    BY <1>3, <1>4, FileIs
<1>6. Sound(r.data)'
    BY <1>1, <1>2, <1>3, ForwardKeeps DEF UserIInv
<1>7. Sound(file'.data)
    BY <1>3, <1>5
<1>8. QED
    BY <1>1, <1>2, <1>5, <1>6, <1>7, StepKeeps DEF UserIInv, UserTypes

LEMMA EndLoginKeeps ==
    ASSUME U!IsUserBounds, UserIInv, NEW l \in Logins, U!EndLogin(l) PROVE UserIInv'
<1>1. l \in U!Threads /\ thread[l].pc = "writing" /\ thread[l].data \in U!Data
    BY DEF U!Threads, U!EndLogin, U!WriteUsers, U!Goto, UserIInv, UserTypes, Runs
<1>2. \E k \in thread[l].data.tokens : k.login = l
    BY <1>1 DEF UserIInv, HasToken
<1>3. U!TokenOf(l) \in thread[l].data.tokens
    BY <1>2 DEF U!TokenOf
<1>4. answered' \in SUBSET U!Tokens
    BY <1>1, <1>3 DEF U!EndLogin, UserIInv, UserTypes, U!Data
<1>5. QED
    BY <1>1, <1>4, WriteUsersKeeps DEF U!EndLogin, UserIInv, UserTypes

LEMMA RoleOfAnyone ==
    ASSUME U!IsUserBounds, UserTypes, NEW p \in U!Passwords PROVE U!RoleAsked(p) \in U!Roles
BY DEF U!RoleAsked, U!IsUserBounds, UserTypes, U!Roles, U!ROLE_PERMISSIONS

LEMMA EndChangeKeeps ==
    ASSUME U!IsUserBounds, UserIInv, NEW p \in U!Passwords, U!EndChange(p) PROVE UserIInv'
<1>1. acknowledged' \in [password: U!Passwords \union {U!NoUser}, role: U!Roles]
    BY RoleOfAnyone DEF U!EndChange, UserIInv
<1>2. QED
    BY <1>1, WriteUsersKeeps DEF U!EndChange, U!Threads, UserIInv, UserTypes

LEMMA ChangePasswordKeeps ==
    ASSUME U!IsUserBounds, UserIInv, NEW p \in U!Passwords, U!ChangePassword(p)
    PROVE  UserIInv'
<1>1. thread[p].data \in U!Data
    BY DEF U!Threads, UserIInv, UserTypes, Runs
<1>2. PICK d \in U!Data : /\ d = [thread[p].data EXCEPT !.password = p]
                       /\ d.tokens = thread[p].data.tokens /\ d.password = p
    BY <1>1, WithPassword
<1>3. QED
    BY <1>2, EntryKeeps DEF U!ChangePassword

LEMMA CreateUserKeeps ==
    ASSUME U!IsUserBounds, UserIInv, NEW p \in U!Passwords, U!CreateUser(p, U!RoleAsked(p))
    PROVE  UserIInv'
<1>1. thread[p].data \in U!Data
    BY DEF U!Threads, UserIInv, UserTypes, Runs
<1>2. PICK role \in U!Roles : role = U!RoleAsked(p)
    BY RoleOfAnyone DEF UserIInv
<1>3. PICK d : d = [thread[p].data EXCEPT !.password = p, !.role = role]
    OBVIOUS
<1>4. U!OpenUsers(p, d)
    BY <1>2, <1>3 DEF U!CreateUser
<1>5. d \in U!Data /\ d.tokens = thread[p].data.tokens /\ d.password = p
  <2>1. PICK e \in U!Data : e = thread[p].data
      BY <1>1
  <2>2. d = [e EXCEPT !.password = p, !.role = role]
      BY <1>3, <2>1
  <2>3. d \in U!Data /\ d.tokens = e.tokens /\ d.password = p
      BY <2>2 DEF U!Data
  <2>4. QED
      BY <2>1, <2>3
<1>6. QED
    BY <1>4, <1>5, EntryKeeps

\* A rival writes what a process starts with.
LEMMA FirstDataSound ==
    ASSUME NEW d \in U!FirstData
    PROVE  d \in U!Data /\ d.tokens = {} /\ d.password \in {U!NoUser, U!Boot}
<1>1. CASE d = U!NoData
    BY <1>1, NoDataSound DEF U!NoData
<1>2. CASE d = [U!NoData EXCEPT !.password = U!Boot, !.role = "admin"]
  <2>1. d = [password |-> U!Boot, role |-> "admin", tokens |-> {}]
      BY <1>2 DEF U!NoData
  <2>2. U!Boot \in U!Passwords /\ "admin" \in U!Roles
      BY DEF U!Passwords, U!Roles, U!ROLE_PERMISSIONS
  <2>3. QED
      BY <2>1, <2>2 DEF U!Data
<1>3. QED
    BY <1>1, <1>2 DEF U!FirstData

LEMMA FirstKeeps ==
    ASSUME U!IsUserBounds, UserIInv, NEW t \in Rivals, U!OpenFirst(t) \/ U!EndFirst(t)
    PROVE  UserIInv'
<1>1. t \in U!Threads /\ t \notin Logins
    BY DEF U!Threads, U!IsUserBounds
<1>2. CASE U!OpenFirst(t)
  <2>1. PICK d \in U!FirstData : U!OpenUsers(t, d)
      BY <1>2 DEF U!OpenFirst
  <2>2. d \in U!Data /\ Sound(d)'
      BY FirstDataSound DEF Sound, Begun
  <2>3. QED
      BY <1>1, <2>1, <2>2, OpenUsersKeeps
<1>3. CASE U!EndFirst(t)
  <2>1. thread[t].data \in U!Data
      BY <1>1 DEF UserIInv, UserTypes, Runs
  <2>2. acknowledged' \in [password: U!Passwords \union {U!NoUser}, role: U!Roles]
      BY <1>3, <2>1 DEF U!EndFirst, U!Data
  <2>3. QED
      BY <1>1, <1>3, <2>2, WriteUsersKeeps DEF U!EndFirst, UserIInv, UserTypes
<1>4. QED
    BY <1>2, <1>3

LEMMA BeginKeeps ==
    ASSUME U!IsUserBounds, UserIInv,
           \/ \E l \in Logins : U!BeginLogin(l)
           \/ \E p \in Changes \union U!Adds : U!BeginChange(p)
           \/ U!StartServer \/ U!BootstrapAdmin
    PROVE  UserIInv'
<1>1. CASE \E l \in Logins : U!BeginLogin(l)
    BY <1>1, BeginReadKeeps DEF U!BeginLogin, U!Threads
<1>2. CASE \E p \in Changes \union U!Adds : U!BeginChange(p)
    BY <1>2, BeginReadKeeps DEF U!BeginChange, U!Threads, U!Passwords
<1>3. U!Boot \in U!Threads
    BY DEF U!Threads, U!Passwords
<1>4. CASE U!StartServer
  <2>1. PICK to \in {"booting", "done"} : U!BeginRead(U!Boot, "idle", U!NoUser, to)
      BY <1>4 DEF U!StartServer
  <2>2. QED
      BY <1>3, <2>1, BeginReadKeeps
<1>5. CASE U!BootstrapAdmin
    BY <1>3, <1>5, BeginReadKeeps DEF U!BootstrapAdmin
<1>6. QED
    BY <1>1, <1>2, <1>4, <1>5

\* A restart takes back only the start of the server, whose password is known.
LEMMA CrashKeeps == ASSUME U!IsUserBounds, UserIInv, U!Crash PROVE UserIInv'
<1>1. PICK r : r \in Runs /\ r = U!Idle /\ r.pc = "idle" /\ r.data = U!NoData
  <2>1. U!Idle \in Runs /\ U!Idle.pc = "idle" /\ U!Idle.data = U!NoData
      BY NoDataSound, RunIs DEF U!Idle, UserPoints
  <2>2. QED
      BY <2>1
<1>2. U!Boot \in U!Threads /\ thread' = [thread EXCEPT ![U!Boot] = r]
      /\ UNCHANGED <<file, now, answered, acknowledged, overlapped>>
    BY <1>1 DEF U!Crash, U!Threads, U!Passwords
<1>3. \A d \in U!Data : Sound(d) => Sound(d)'
    BY <1>1, <1>2, ForwardKeeps DEF UserIInv
<1>4. dead' \in SUBSET Logins
    BY DEF U!Crash
<1>5. thread' \in [U!Threads -> Runs] /\ thread'[U!Boot] = r
      /\ \A t \in U!Threads : t # U!Boot => thread'[t] = thread[t]
    BY <1>1, <1>2 DEF UserIInv, UserTypes
<1>6. UserTypes'
    BY <1>2, <1>4, <1>5 DEF UserIInv, UserTypes
<1>7. DataSound'
  <2>1. \A d \in U!Data : d = file.data \/ (\E t \in U!Threads : d = thread[t].data) => Sound(d)'
      BY <1>3 DEF UserIInv, DataSound
  <2>2. Sound(file.data)'
    <3>1. PICK d \in U!Data : d = file.data
        BY DEF UserIInv, UserTypes, Files
    <3>2. QED
        BY <1>2, <2>1, <3>1 DEF Sound
  <2>3. ASSUME NEW t \in U!Threads PROVE Sound(thread[t].data)'
    <3>1. CASE t = U!Boot
      <4>1. Sound(U!NoData)'
          BY DEF U!NoData, Sound, Begun
      <4>2. QED
          BY <1>1, <1>5, <3>1, <4>1 DEF Sound
    <3>2. CASE t # U!Boot
      <4>1. PICK d \in U!Data : d = thread[t].data
          BY DEF UserIInv, UserTypes, Runs
      <4>2. QED
          BY <1>5, <2>1, <3>2, <4>1 DEF Sound
    <3>3. QED
        BY <3>1, <3>2
  <2>4. QED
      BY <2>2, <2>3 DEF DataSound
<1>8. HasToken'
    BY <1>5 DEF UserIInv, HasToken, U!IsUserBounds, U!Passwords, U!Threads
<1>9. QED
    BY <1>6, <1>7, <1>8 DEF UserIInv

LEMMA TickKeeps == ASSUME U!IsUserBounds, UserIInv, U!Tick PROVE UserIInv'
<1>1. now' \in 0..MaxTime
    BY DEF U!Tick, UserIInv, UserTypes, U!IsUserBounds
<1>2. QED
    BY <1>1 DEF U!Tick, UserIInv, UserTypes, DataSound, Sound, Begun, Earned, HasToken

LEMMA UserNextIInv == ASSUME U!IsUserBounds, UserIInv, [U!Next]_(U!vars) PROVE UserIInv'
<1>1. CASE \E l \in Logins : U!Login(l)
  <2>1. PICK l \in Logins : U!Login(l)
      BY <1>1
  <2>2. l \in U!Threads
      BY DEF U!Threads
  <2>3. CASE U!Refuse(l)
      BY <2>2, <2>3, RefuseKeeps DEF U!Refuse
  <2>4. QED
      BY <2>1, <2>3, BeginKeeps, IssueTokenKeeps, EndLoginKeeps DEF U!Login
<1>2. CASE \E p \in Changes : U!Change(p)
  <2>1. PICK p \in Changes : U!Change(p)
      BY <1>2
  <2>2. p \in U!Threads /\ p \in U!Passwords
      BY DEF U!Threads, U!Passwords
  <2>3. CASE U!RefuseChange(p)
      BY <2>2, <2>3, RefuseKeeps DEF U!RefuseChange
  <2>4. QED
      BY <2>1, <2>2, <2>3, BeginKeeps, ChangePasswordKeeps, EndChangeKeeps DEF U!Change
<1>3. CASE \E p \in U!Adds : U!Add(p)
    BY <1>3, BeginKeeps, CreateUserKeeps, EndChangeKeeps DEF U!Add, U!Passwords
<1>4. CASE U!Start
    BY <1>4, BeginKeeps, CreateUserKeeps, EndChangeKeeps DEF U!Start, U!Passwords
<1>5. CASE U!Tick \/ U!Crash
    BY <1>5, TickKeeps, CrashKeeps
<1>6. CASE \E t \in Rivals : U!OpenFirst(t) \/ U!EndFirst(t)
    BY <1>6, FirstKeeps
<1>7. CASE UNCHANGED U!vars
    BY <1>7 DEF U!vars, UserIInv, UserTypes, DataSound, Sound, Begun, Earned, HasToken
<1>8. QED
    BY <1>1, <1>2, <1>3, <1>4, <1>5, <1>6, <1>7 DEF U!Next

-----------------------------------------------------------------------------
(* The user store: without overlap *)


LEMMA UserInitSerial == ASSUME U!IsUserBounds, U!Init PROVE UserSerialInv
<1> SUFFICES ASSUME ~overlapped
             PROVE  /\ OneRewriter /\ FileHolds
                    /\ \A t \in U!Threads : U!Active(t) => ThreadHolds(t)
    BY DEF UserSerialInv
<1>1. PICK here \in Arrivals :
         /\ thread = [t \in U!Threads |-> [U!Idle EXCEPT !.pc = U!Arrived(here, t)]]
         /\ \A t, u \in Rivals \intersect here : t = u
    BY DEF U!Init
<1>2. \A t \in U!Threads : /\ U!Active(t) => t \in Rivals \intersect here
                          /\ thread[t].pc \in {"idle", "hashing", "refused"}
  <2>1. ASSUME NEW t \in U!Threads
        PROVE  thread[t].pc = U!Arrived(here, t)
      BY <1>1 DEF U!Idle
  <2>2. ASSUME NEW t \in U!Threads
        PROVE  /\ thread[t].pc \in {"idle", "hashing", "refused"}
               /\ thread[t].pc = "hashing" => t \in Rivals \intersect here
      BY <2>1 DEF U!Arrived
  <2>3. QED
      BY <2>2 DEF U!Active
<1>3. FileHolds
    BY DEF U!Init, FileHolds, Holds, HoldsTokens, U!NoData
<1>4. file.state = "whole" /\ answered = {}
    BY DEF U!Init
<1>5. OneRewriter
    BY <1>1, <1>2 DEF OneRewriter
<1>6. \A t \in U!Threads : U!Active(t) => ThreadHolds(t)
    BY <1>2, <1>4 DEF ThreadHolds
<1>7. QED
    BY <1>3, <1>5, <1>6

\* What holds of the data holds as long as the clock, the answers and what was
\* acknowledged stay.
LEMMA HoldsStays ==
    ASSUME UNCHANGED <<now, answered, acknowledged>>
    PROVE  \A d : /\ HoldsTokens(d) => HoldsTokens(d)'
                  /\ Holds(d) => Holds(d)'
BY DEF HoldsTokens, Holds

\* The only rewriting thread becomes r, and the file goes with it.
LEMMA OneGoesOn ==
    ASSUME UserTypes, NEW t \in U!Threads, NEW r,
           thread' = [thread EXCEPT ![t] = r], dead' = dead,
           ~overlapped' => /\ \A u \in U!Threads \ {t} : ~U!Active(u)
                           /\ FileHolds'
                           /\ U!Active(t)' => ThreadHolds(t)'
    PROVE  UserSerialInv'
<1> SUFFICES ASSUME ~overlapped'
             PROVE  /\ OneRewriter' /\ FileHolds'
                    /\ \A u \in U!Threads : U!Active(u)' => ThreadHolds(u)'
    BY DEF UserSerialInv
<1>1. \A u \in U!Threads \ {t} : thread'[u] = thread[u]
    BY DEF UserTypes
<1>2. \A u \in U!Threads : U!Active(u)' => u = t
    BY <1>1 DEF U!Active
<1>3. QED
    BY <1>2 DEF OneRewriter

LEMMA UserSerialBegin ==
    ASSUME U!IsUserBounds, UserIInv, UserSerialInv, NEW t \in U!Threads,
           NEW from \in {"idle", "booting"},
           t \notin Rivals,
           NEW x, NEW to \in {"hashing", "booting", "done"}, U!BeginRead(t, from, x, to)
    PROVE  UserSerialInv'
<1>1. PICK r : /\ r = [pc |-> IF file.state = "whole" THEN to ELSE "raised",
                       presents |-> x, data |-> file.data]
               /\ thread' = [thread EXCEPT ![t] = r]
    BY DEF U!BeginRead
<1>2. /\ UNCHANGED <<file, now, answered, acknowledged, dead>>
      /\ overlapped' = (overlapped \/ \E u \in U!Threads \ {t} : U!Active(u))
    BY DEF U!BeginRead
<1>3. thread'[t] = r
    BY <1>1 DEF UserIInv, UserTypes
<1>4. r.pc = "hashing" => file.state = "whole"
    BY <1>1
<1>5. r.pc # "writing" /\ r.data = file.data
    BY <1>1
<1>6. ThreadHolds(t)'
    BY <1>2, <1>3, <1>4, <1>5 DEF ThreadHolds
<1>7. ~overlapped' => FileHolds'
    BY <1>2, HoldsStays DEF UserSerialInv, FileHolds
<1>8. QED
    BY <1>1, <1>2, <1>6, <1>7, OneGoesOn DEF UserIInv

\* A thread that has read is the only one, and its data are those of the file; a
\* rival has only been started.
LEMMA SerialHashed ==
    ASSUME UserSerialInv, NEW t \in U!Threads, t \notin dead, thread[t].pc = "hashing",
           ~overlapped
    PROVE  /\ \A u \in U!Threads \ {t} : ~U!Active(u)
           /\ file.state = "whole" /\ Holds(file.data)
           /\ IF t \in Rivals THEN answered = {} ELSE thread[t].data = file.data
<1>1. U!Active(t)
    BY DEF U!Active
<1>2. QED
    BY <1>1 DEF UserSerialInv, OneRewriter, FileHolds, ThreadHolds

LEMMA SerialRefuse ==
    ASSUME UserIInv, UserSerialInv, NEW t \in U!Threads,
           U!Goto(t, "hashing", "refused", thread[t].data),
           UNCHANGED <<file, now, answered, acknowledged, dead, overlapped>>
    PROVE  UserSerialInv'
<1>1. PICK r : /\ r = [thread[t] EXCEPT !.pc = "refused", !.data = thread[t].data]
               /\ thread' = [thread EXCEPT ![t] = r]
    BY DEF U!Goto, UserIInv, UserTypes
<1>2. thread'[t].pc = "refused"
    BY <1>1 DEF UserIInv, UserTypes, Runs
<1>3. ~U!Active(t)'
    BY <1>2 DEF U!Active
<1>4. ~overlapped => \A u \in U!Threads \ {t} : ~U!Active(u)
    BY SerialHashed DEF U!Goto
<1>5. ~overlapped => FileHolds'
    BY HoldsStays DEF UserSerialInv, FileHolds
<1>6. QED
    BY <1>1, <1>3, <1>4, <1>5, OneGoesOn DEF UserIInv

LEMMA SerialOpen ==
    ASSUME UserIInv, UserSerialInv, NEW t \in U!Threads, NEW d, U!OpenUsers(t, d),
           ~overlapped => /\ HoldsTokens(d)
                          /\ t \in Logins => Holds(d)
                          /\ t \in U!Passwords => d.password = t /\ d.role = U!RoleAsked(t)
    PROVE  UserSerialInv'
<1>1. PICK r : /\ r = [thread[t] EXCEPT !.pc = "writing", !.data = d]
               /\ thread' = [thread EXCEPT ![t] = r]
    BY DEF U!OpenUsers, U!Goto, UserIInv, UserTypes
<1>2. /\ UNCHANGED <<now, answered, acknowledged, dead, overlapped>>
      /\ t \notin dead /\ thread[t].pc = "hashing"
    BY DEF U!OpenUsers, U!Goto
<1>3. file'.state = "empty"
    BY DEF U!OpenUsers, UserIInv, UserTypes, Files
<1>4. thread'[t].pc = "writing" /\ thread'[t].data = d
    BY <1>1 DEF UserIInv, UserTypes, Runs
<1>5. U!RoleAsked(t)' = U!RoleAsked(t)
    BY <1>2 DEF U!RoleAsked
<1>6. ~overlapped => Prepared(t)'
  <2>1. HoldsTokens(d)' = HoldsTokens(d)
      BY <1>2 DEF HoldsTokens
  <2>2. Holds(d)' = Holds(d)
      BY <1>2, <2>1 DEF Holds
  <2>3. QED
      BY <1>4, <1>5, <2>1, <2>2 DEF Prepared, Holds, HoldsTokens
<1>7. ~overlapped => ThreadHolds(t)'
    BY <1>3, <1>4, <1>6 DEF ThreadHolds
<1>8. ~overlapped => \A u \in U!Threads \ {t} : ~U!Active(u)
    BY <1>2, SerialHashed
<1>9. FileHolds'
    BY <1>3 DEF FileHolds
<1>10. QED
    BY <1>1, <1>2, <1>7, <1>8, <1>9, OneGoesOn DEF UserIInv

LEMMA SerialWriting ==
    ASSUME UserSerialInv, NEW t \in U!Threads, t \notin dead, thread[t].pc = "writing",
           ~overlapped
    PROVE  /\ \A u \in U!Threads \ {t} : ~U!Active(u)
           /\ file.state = "empty" /\ Prepared(t)
<1>1. U!Active(t)
    BY DEF U!Active
<1>2. QED
    BY <1>1 DEF UserSerialInv, OneRewriter, ThreadHolds

LEMMA SerialWrite ==
    ASSUME UserIInv, UserSerialInv, NEW t \in U!Threads, U!WriteUsers(t),
           NEW d, d = thread[t].data, ~overlapped => Holds(d)'
    PROVE  UserSerialInv'
<1>1. PICK r : /\ r = [thread[t] EXCEPT !.pc = "done", !.data = thread[t].data]
               /\ thread' = [thread EXCEPT ![t] = r]
    BY DEF U!WriteUsers, U!Goto, UserIInv, UserTypes
<1>2. /\ UNCHANGED <<now, dead, overlapped>>
      /\ t \notin dead /\ thread[t].pc = "writing"
    BY DEF U!WriteUsers, U!Goto
<1>3. ~U!Active(t)'
  <2>1. thread'[t].pc = "done"
      BY <1>1 DEF UserIInv, UserTypes, Runs
  <2>2. QED
      BY <2>1 DEF U!Active
<1>4. ~overlapped => file'.state = "whole" /\ file'.data = d
  <2>1. ASSUME ~overlapped PROVE U!Overwritten(d) = {"whole"}
      BY <1>2, <2>1, SerialWriting DEF U!Overwritten
  <2>2. \E st \in U!Overwritten(d) : file' = [state |-> st, data |-> d]
      BY DEF U!WriteUsers
  <2>3. QED
      BY <2>1, <2>2
<1>5. ~overlapped => FileHolds'
    BY <1>4 DEF FileHolds, Holds, HoldsTokens
<1>6. ~overlapped => \A u \in U!Threads \ {t} : ~U!Active(u)
    BY <1>2, SerialWriting
<1>7. QED
    BY <1>1, <1>2, <1>3, <1>5, <1>6, OneGoesOn DEF UserIInv

LEMMA SerialIssue ==
    ASSUME U!IsUserBounds, UserIInv, UserSerialInv, NEW l \in Logins, U!IssueToken(l)
    PROVE  UserSerialInv'
<1>1. l \in U!Threads /\ l \notin U!Passwords \union Rivals /\ thread[l].data \in U!Data
    BY DEF U!Threads, U!IsUserBounds, UserIInv, UserTypes, Runs
<1>2. PICK ks : ks = U!Valid(thread[l].data)
                       \union {[login |-> l, expires |-> now + TOKEN_TTL]}
    OBVIOUS
<1>3. PICK d : d = [thread[l].data EXCEPT !.tokens = ks]
    OBVIOUS
<1>4. U!OpenUsers(l, d)
    BY <1>2, <1>3 DEF U!IssueToken
<1>5. /\ d.tokens = ks /\ d.password = thread[l].data.password
      /\ d.role = thread[l].data.role
    BY <1>1, <1>3 DEF U!Data
<1>6. ASSUME ~overlapped PROVE Holds(d)
  <2>1. Holds(thread[l].data)
      BY <1>1, <1>4, <1>6, SerialHashed DEF U!OpenUsers, U!Goto
  <2>2. HoldsTokens(d)
      BY <1>2, <1>5, <2>1 DEF Holds, HoldsTokens, U!Valid
  <2>3. QED
      BY <1>5, <2>1, <2>2 DEF Holds
<1>7. QED
    BY <1>1, <1>4, <1>6, SerialOpen DEF Holds

\* The entry of the user gets its password and role, the tokens stay.
LEMMA SerialEntry ==
    ASSUME U!IsUserBounds, UserIInv, UserSerialInv, NEW p \in U!Passwords, NEW d,
           U!OpenUsers(p, d),
           d.tokens = thread[p].data.tokens, d.password = p,
           ~overlapped => d.role = U!RoleAsked(p)
    PROVE  UserSerialInv'
<1>1. p \in U!Threads /\ p \notin Logins \union Rivals
    BY DEF U!Threads, U!IsUserBounds
<1>2. ASSUME ~overlapped PROVE HoldsTokens(d)
  <2>1. Holds(thread[p].data)
      BY <1>1, <1>2, SerialHashed DEF U!OpenUsers, U!Goto
  <2>2. QED
      BY <2>1 DEF Holds, HoldsTokens
<1>3. QED
    BY <1>1, <1>2, SerialOpen

LEMMA SerialChangePassword ==
    ASSUME U!IsUserBounds, UserIInv, UserSerialInv, NEW p \in Changes, U!ChangePassword(p)
    PROVE  UserSerialInv'
<1>1. /\ p \in U!Passwords /\ p \in U!Threads /\ p \notin Rivals
      /\ thread[p].data \in U!Data
    BY DEF U!Passwords, U!Threads, U!IsUserBounds, UserIInv, UserTypes, Runs
<1>2. PICK d : d = [thread[p].data EXCEPT !.password = p]
    OBVIOUS
<1>3. U!OpenUsers(p, d)
    BY <1>2 DEF U!ChangePassword
<1>4. d.tokens = thread[p].data.tokens /\ d.password = p /\ d.role = thread[p].data.role
    BY <1>1, <1>2 DEF U!Data
<1>5. U!RoleAsked(p) = acknowledged.role
    BY DEF U!RoleAsked, U!IsUserBounds
<1>6. ASSUME ~overlapped PROVE d.role = U!RoleAsked(p)
  <2>1. Holds(thread[p].data)
      BY <1>1, <1>3, <1>6, SerialHashed DEF U!OpenUsers, U!Goto
  <2>2. QED
      BY <1>4, <1>5, <2>1 DEF Holds
<1>7. QED
    BY <1>1, <1>3, <1>4, <1>6, SerialEntry

LEMMA SerialCreateUser ==
    ASSUME U!IsUserBounds, UserIInv, UserSerialInv, NEW p \in U!Passwords,
           U!CreateUser(p, U!RoleAsked(p))
    PROVE  UserSerialInv'
<1>1. p \in U!Threads /\ thread[p].data \in U!Data
    BY DEF U!Threads, UserIInv, UserTypes, Runs
<1>2. PICK role : role = U!RoleAsked(p)
    OBVIOUS
<1>3. PICK d : d = [thread[p].data EXCEPT !.password = p, !.role = role]
    OBVIOUS
<1>4. U!OpenUsers(p, d)
    BY <1>2, <1>3 DEF U!CreateUser
<1>5. d.tokens = thread[p].data.tokens /\ d.password = p /\ d.role = role
    BY <1>1, <1>3 DEF U!Data
<1>6. QED
    BY <1>2, <1>4, <1>5, SerialEntry

LEMMA SerialEndLogin ==
    ASSUME U!IsUserBounds, UserIInv, UserSerialInv, NEW l \in Logins, U!EndLogin(l)
    PROVE  UserSerialInv'
<1>1. l \in U!Threads /\ l \notin dead /\ thread[l].pc = "writing"
    BY DEF U!Threads, U!EndLogin, U!WriteUsers, U!Goto
<1>2. U!TokenOf(l) \in thread[l].data.tokens
  <2>1. \E k \in thread[l].data.tokens : k.login = l
      BY <1>1 DEF UserIInv, HasToken
  <2>2. QED
      BY <2>1 DEF U!TokenOf
<1>3. PICK d : d = thread[l].data
    OBVIOUS
<1>4. UNCHANGED <<now, acknowledged>> /\ answered' = answered \union {U!TokenOf(l)}
    BY DEF U!EndLogin, U!WriteUsers
<1>5. ASSUME ~overlapped PROVE Holds(d)'
  <2>1. Holds(d)
      BY <1>1, <1>3, <1>5, SerialWriting DEF Prepared
  <2>2. QED
      BY <1>2, <1>3, <1>4, <2>1 DEF Holds, HoldsTokens
<1>6. QED
    BY <1>1, <1>3, <1>5, SerialWrite DEF U!EndLogin

LEMMA SerialEndChange ==
    ASSUME U!IsUserBounds, UserIInv, UserSerialInv, NEW p \in U!Passwords, U!EndChange(p)
    PROVE  UserSerialInv'
<1>1. p \in U!Threads /\ p \notin dead /\ thread[p].pc = "writing"
    BY DEF U!Threads, U!EndChange, U!WriteUsers, U!Goto
<1>2. PICK d : d = thread[p].data
    OBVIOUS
<1>3. /\ UNCHANGED <<now, answered>>
      /\ acknowledged'.password = p /\ acknowledged'.role = U!RoleAsked(p)
    BY DEF U!EndChange, U!WriteUsers
<1>4. ASSUME ~overlapped PROVE Holds(d)'
  <2>1. HoldsTokens(d) /\ d.password = p /\ d.role = U!RoleAsked(p)
      BY <1>1, <1>2, <1>4, SerialWriting DEF Prepared
  <2>2. QED
      BY <1>3, <2>1 DEF Holds, HoldsTokens
<1>5. QED
    BY <1>1, <1>2, <1>4, SerialWrite DEF U!EndChange

\* A rival that is not overlapped writes before anybody has a token.
LEMMA SerialFirst ==
    ASSUME U!IsUserBounds, UserIInv, UserSerialInv, NEW t \in Rivals,
           U!OpenFirst(t) \/ U!EndFirst(t)
    PROVE  UserSerialInv'
<1>1. t \in U!Threads /\ t \notin Logins /\ t \notin U!Passwords
    BY DEF U!Threads, U!IsUserBounds
<1>2. CASE U!OpenFirst(t)
  <2>1. PICK d \in U!FirstData : U!OpenUsers(t, d)
      BY <1>2 DEF U!OpenFirst
  <2>2. ~overlapped => HoldsTokens(d)
      BY <1>1, <2>1, SerialHashed DEF U!OpenUsers, U!Goto, HoldsTokens
  <2>3. QED
      BY <1>1, <2>1, <2>2, SerialOpen
<1>3. CASE U!EndFirst(t)
  <2>1. t \notin dead /\ thread[t].pc = "writing"
      BY <1>3 DEF U!EndFirst, U!WriteUsers, U!Goto
  <2>2. PICK d : d = thread[t].data
      OBVIOUS
  <2>3. /\ UNCHANGED <<now, answered>>
        /\ acknowledged'.password = d.password /\ acknowledged'.role = d.role
      BY <1>3, <2>2 DEF U!EndFirst, U!WriteUsers
  <2>4. ~overlapped => Holds(d)'
      BY <1>1, <2>1, <2>2, <2>3, SerialWriting DEF Prepared, Holds, HoldsTokens
  <2>5. QED
      BY <1>1, <1>3, <2>2, <2>4, SerialWrite DEF U!EndFirst
<1>4. QED
    BY <1>2, <1>3

LEMMA SerialBegins ==
    ASSUME U!IsUserBounds, UserIInv, UserSerialInv,
           \/ \E l \in Logins : U!BeginLogin(l)
           \/ \E p \in Changes \union U!Adds : U!BeginChange(p)
           \/ U!StartServer \/ U!BootstrapAdmin
    PROVE  UserSerialInv'
<1>1. CASE \E l \in Logins : U!BeginLogin(l)
    BY <1>1, UserSerialBegin DEF U!BeginLogin, U!Threads, U!IsUserBounds
<1>2. CASE \E p \in Changes \union U!Adds : U!BeginChange(p)
    BY <1>2, UserSerialBegin DEF U!BeginChange, U!Threads, U!Passwords, U!IsUserBounds
<1>3. U!Boot \in U!Threads /\ U!Boot \notin Rivals
    BY DEF U!Threads, U!Passwords, U!IsUserBounds
<1>4. CASE U!StartServer
  <2>1. PICK to \in {"booting", "done"} : U!BeginRead(U!Boot, "idle", U!NoUser, to)
      BY <1>4 DEF U!StartServer
  <2>2. QED
      BY <1>3, <2>1, UserSerialBegin
<1>5. CASE U!BootstrapAdmin
    BY <1>3, <1>5, UserSerialBegin DEF U!BootstrapAdmin
<1>6. QED
    BY <1>1, <1>2, <1>4, <1>5

\* The clock makes tokens expire and no others.
LEMMA SerialTick ==
    ASSUME U!IsUserBounds, UserIInv, UserSerialInv, U!Tick
    PROVE  UserSerialInv'
<1>1. now \in Nat /\ now' = now + 1 /\ answered \in SUBSET U!Tokens
      /\ UNCHANGED <<file, thread, answered, acknowledged, dead, overlapped>>
    BY DEF U!Tick, UserIInv, UserTypes
<1>2. \A d : HoldsTokens(d) => HoldsTokens(d)'
  <2>1. \A k \in U!Tokens : k.expires \in Nat
      BY DEF U!Tokens, U!Times
  <2>2. \A k \in answered : k.expires > now + 1 => k.expires > now
      BY <1>1, <2>1
  <2>3. QED
      BY <1>1, <2>2 DEF HoldsTokens
<1>3. \A d : Holds(d) => Holds(d)'
    BY <1>1, <1>2 DEF Holds
<1>4. FileHolds => FileHolds'
  <2>1. Holds(file.data) => Holds(file.data)'
    <3>1. PICK d : d = file.data
        OBVIOUS
    <3>2. Holds(d) => Holds(d)'
        BY <1>3
    <3>3. QED
        BY <1>1, <3>1, <3>2 DEF Holds, HoldsTokens
  <2>2. QED
      BY <1>1, <2>1 DEF FileHolds
<1>5. ASSUME NEW t \in U!Threads, ThreadHolds(t) PROVE ThreadHolds(t)'
  <2>1. PICK d : d = thread[t].data
      OBVIOUS
  <2>2. Prepared(t) => Prepared(t)'
      BY <1>1, <1>2, <1>3, <2>1 DEF Prepared, Holds, HoldsTokens, U!RoleAsked
  <2>3. QED
      BY <1>1, <1>5, <2>2 DEF ThreadHolds
<1>6. QED
    BY <1>1, <1>4, <1>5 DEF UserSerialInv, OneRewriter, U!Active

\* A restart ends some of the rewriting threads.
LEMMA SerialCrash ==
    ASSUME U!IsUserBounds, UserIInv, UserSerialInv, U!Crash
    PROVE  UserSerialInv'
<1>1. /\ dead = {} /\ thread' = [thread EXCEPT ![U!Boot] = U!Idle]
      /\ UNCHANGED <<file, now, answered, acknowledged, overlapped>>
    BY DEF U!Crash
<1>2. thread \in [U!Threads -> Runs]
    BY DEF UserIInv, UserTypes
<1>3. \A t \in U!Threads : U!Active(t)' => U!Active(t) /\ thread'[t] = thread[t]
    BY <1>1, <1>2 DEF U!Active, U!Idle
<1>4. ASSUME NEW t \in U!Threads, U!Active(t)', ThreadHolds(t) PROVE ThreadHolds(t)'
  <2>1. thread'[t] = thread[t]
      BY <1>3, <1>4
  <2>2. QED
      BY <1>1, <1>4, <2>1 DEF ThreadHolds, Prepared, Holds, HoldsTokens, U!RoleAsked
<1>5. FileHolds => FileHolds'
    BY <1>1 DEF FileHolds, Holds, HoldsTokens
<1>6. QED
    BY <1>1, <1>3, <1>4, <1>5 DEF UserSerialInv, OneRewriter

LEMMA UserNextSerial ==
    ASSUME U!IsUserBounds, UserIInv, UserSerialInv, [U!Next]_(U!vars)
    PROVE  UserSerialInv'
<1>1. CASE \E l \in Logins : U!Login(l)
  <2>1. PICK l \in Logins : U!Login(l)
      BY <1>1
  <2>2. l \in U!Threads
      BY DEF U!Threads
  <2>3. CASE U!Refuse(l)
      BY <2>2, <2>3, SerialRefuse DEF U!Refuse
  <2>4. QED
      BY <2>1, <2>3, SerialBegins, SerialIssue, SerialEndLogin DEF U!Login
<1>2. CASE \E p \in Changes : U!Change(p)
  <2>1. PICK p \in Changes : U!Change(p)
      BY <1>2
  <2>2. p \in U!Threads /\ p \in U!Passwords
      BY DEF U!Threads, U!Passwords
  <2>3. CASE U!RefuseChange(p)
      BY <2>2, <2>3, SerialRefuse DEF U!RefuseChange
  <2>4. QED
      BY <2>1, <2>2, <2>3, SerialBegins, SerialChangePassword, SerialEndChange DEF U!Change
<1>3. CASE \E p \in U!Adds : U!Add(p)
    BY <1>3, SerialBegins, SerialCreateUser, SerialEndChange DEF U!Add, U!Passwords
<1>4. CASE U!Start
    BY <1>4, SerialBegins, SerialCreateUser, SerialEndChange DEF U!Start, U!Passwords
<1>5. CASE U!Tick \/ U!Crash
    BY <1>5, SerialTick, SerialCrash
<1>6. CASE \E t \in Rivals : U!OpenFirst(t) \/ U!EndFirst(t)
    BY <1>6, SerialFirst
<1>7. CASE UNCHANGED U!vars
    BY <1>7 DEF U!vars, UserSerialInv, OneRewriter, U!Active, FileHolds, ThreadHolds,
                Prepared,
                Holds, HoldsTokens, U!RoleAsked
<1>8. QED
    BY <1>1, <1>2, <1>3, <1>4, <1>5, <1>6, <1>7 DEF U!Next

LEMMA EarnedIsInvariant == UserIInv => U!TokensAreEarned
<1> SUFFICES ASSUME UserIInv PROVE U!TokensAreEarned
    OBVIOUS
<1> SUFFICES ASSUME NEW k \in U!Accepted
             PROVE  LET presented == thread[k.login].presents
                    IN  \/ presented = U!Vouched \/ presented = U!Boot
                        \/ thread[presented].pc \in {"writing", "done"}
    BY DEF U!TokensAreEarned
<1>1. k \in file.data.tokens
    BY DEF U!Accepted, U!Valid
<1>2. Earned(k)
    BY <1>1 DEF UserIInv, DataSound, Sound
<1>3. QED
    BY <1>2 DEF Earned, Begun

LEMMA UserSerialIsInvariant ==
    ASSUME UserIInv, UserSerialInv
    PROVE  U!SerialSessionsHold /\ U!SerialPasswordHolds
<1> SUFFICES ASSUME ~overlapped, U!Settled
             PROVE  /\ file.data.password = acknowledged.password /\ file.state = "whole"
                    /\ \A k \in answered : k.expires > now =>
                          {p \in UNION {U!ROLE_PERMISSIONS[r] : r \in U!Roles} : U!Require(k, p)}
                              = U!ROLE_PERMISSIONS[acknowledged.role]
    BY DEF U!SerialSessionsHold, U!SerialPasswordHolds
<1>1. file.state = "whole" /\ Holds(file.data)
    BY DEF UserSerialInv, FileHolds, U!Settled, UserIInv, UserTypes, Files, States
<1>2. ASSUME NEW k \in answered, k.expires > now
      PROVE  {p \in UNION {U!ROLE_PERMISSIONS[r] : r \in U!Roles} : U!Require(k, p)}
                 = U!ROLE_PERMISSIONS[acknowledged.role]
  <2>1. k \in U!Accepted
      BY <1>1, <1>2 DEF Holds, HoldsTokens, U!Accepted, U!Valid
  <2>2. file.data.role = acknowledged.role /\ acknowledged.role \in U!Roles
      BY <1>1 DEF Holds, UserIInv, UserTypes
  <2>3. QED
      BY <2>1, <2>2 DEF U!Require
<1>3. QED
    BY <1>1, <1>2 DEF Holds

-----------------------------------------------------------------------------
(* The work directory: the store at work keeps its invariants, the other stands. *)

IInv ==
    /\ store \in {"audits", "users"}
    /\ store = "audits" => AuditIInv /\ AuditSerialInv
    /\ store = "users" => UserIInv /\ UserSerialInv

LEMMA InitIInv == Init => IInv
<1> SUFFICES ASSUME Init PROVE IInv
    OBVIOUS
<1>1. CASE store = "audits" /\ A!Init
    BY <1>1, AuditAssumption, AuditInitIInv, AuditInitSerial DEF IInv
<1>2. CASE store = "users" /\ U!Init
    BY <1>2, UserAssumption, UserInitIInv, UserInitSerial DEF IInv
<1>3. QED
    BY <1>1, <1>2 DEF Init

LEMMA NextIInv == IInv /\ [Next]_vars => IInv'
<1> SUFFICES ASSUME IInv, [Next]_vars PROVE IInv'
    OBVIOUS
<1>1. CASE AuditStep
  <2>1. store = "audits" /\ store' = store /\ A!Next
      BY <1>1 DEF AuditStep
  <2>2. AuditIInv' /\ AuditSerialInv'
      BY <2>1, AuditAssumption, AuditNextIInv, AuditNextSerial DEF IInv
  <2>3. QED
      BY <2>1, <2>2 DEF IInv
<1>2. CASE UserStep
  <2>1. store = "users" /\ store' = store /\ U!Next
      BY <1>2 DEF UserStep
  <2>2. UserIInv' /\ UserSerialInv'
      BY <2>1, UserAssumption, UserNextIInv, UserNextSerial DEF IInv
  <2>3. QED
      BY <2>1, <2>2 DEF IInv
<1>3. CASE UNCHANGED vars
  <2>1. store' = store /\ UNCHANGED A!vars /\ UNCHANGED U!vars
      BY <1>3 DEF vars, auditVars, userVars, A!vars, U!vars
  <2>2. store = "audits" => AuditIInv' /\ AuditSerialInv'
      BY <2>1, AuditAssumption, AuditNextIInv, AuditNextSerial DEF IInv
  <2>3. store = "users" => UserIInv' /\ UserSerialInv'
      BY <2>1, UserAssumption, UserNextIInv, UserNextSerial DEF IInv
  <2>4. QED
      BY <2>1, <2>2, <2>3 DEF IInv
<1>4. QED
    BY <1>1, <1>2, <1>3 DEF Next

LEMMA Inductive == Spec => []IInv
<1>1. Init => IInv
    BY InitIInv
<1>2. IInv /\ [Next]_vars => IInv'
    BY NextIInv
<1>3. QED
    BY <1>1, <1>2, PTL DEF Spec

-----------------------------------------------------------------------------
(* The theorems *)

\* The store at work has the types of its TypeOK in every reachable state.
THEOREM TypeCorrect ==
    Spec => []((store = "audits" => A!TypeOK) /\ (store = "users" => U!TypeOK))
<1>1. AuditIInv => A!TypeOK
    BY DEF AuditIInv, AuditTypes, A!TypeOK, Writers, AuditPoints, Indexes
<1>2. UserIInv => U!TypeOK
    BY DEF UserIInv, UserTypes, U!TypeOK, Files, States, Runs, UserPoints
<1>3. IInv => (store = "audits" => A!TypeOK) /\ (store = "users" => U!TypeOK)
    BY <1>1, <1>2 DEF IInv
<1>4. QED
    BY <1>3, Inductive, PTL

\* However the saves of different audits interleave, and wherever the server dies, the
\* listing never promises more than the artifacts hold.
THEOREM ListingNeverAhead == Spec => []ListingBehindArtifact
<1>1. IInv => ListingBehindArtifact
    BY AuditAssumption, BehindIsInvariant DEF IInv, ListingBehindArtifact
<1>2. QED
    BY <1>1, Inductive, PTL

\* Saves that do not overlap leave an exact listing: every audit that is not inside a
\* save is listed as last saved, also after a crash in any of them and any rebuilding.
THEOREM SerialListings == Spec => []SerialListingExact
<1>1. IInv => SerialListingExact
    BY AuditSerialIsInvariant DEF IInv, SerialListingExact
<1>2. QED
    BY <1>1, Inductive, PTL

\* Rewritings of users.json that do not overlap lose no session: a token that was
\* returned is accepted until it expires, with the permissions of its user's role now.
THEOREM SerialSessions == Spec => []SerialSessionsHold
<1>1. IInv => SerialSessionsHold
    BY UserSerialIsInvariant DEF IInv, SerialSessionsHold
<1>2. QED
    BY <1>1, Inductive, PTL

\* Nor do they bring an old password back: the one acknowledged last is in force.
THEOREM SerialPasswords == Spec => []SerialPasswordHolds
<1>1. IInv => SerialPasswordHolds
    BY UserSerialIsInvariant DEF IInv, SerialPasswordHolds
<1>2. QED
    BY <1>1, Inductive, PTL

\* However the rewritings of users.json overlap: an accepted token goes back to a
\* request that was vouched for or showed a password somebody had begun to write.
THEOREM NoTokenUnearned == Spec => []TokensAreEarned
<1>1. IInv => TokensAreEarned
    BY EarnedIsInvariant DEF IInv, TokensAreEarned
<1>2. QED
    BY <1>1, Inductive, PTL
=============================================================================
