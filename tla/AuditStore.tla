----------------------------- MODULE AuditStore -----------------------------
(***************************************************************************)
(* AuditStore of apps/audits/models.py: audit.json of every audit and the  *)
(* index.json over them, both rewritten in place by Path.write_text.       *)
(*                                                                         *)
(* An audit has one writer (the API thread that creates it, then the one   *)
(* worker that runs it), the audits of a server have several, and nothing  *)
(* orders them.  A file operation is a step: opening for writing empties   *)
(* the file, the text arrives later.  The content of an artifact is the    *)
(* number of the save that wrote it, that of the index a number per audit. *)
(***************************************************************************)
EXTENDS Naturals, FiniteSets, FiniteSetsExt

CONSTANTS NumAudits,    \* bound on the audits; their ids sort like numbers
          MaxSaves      \* bound on the saves of one audit

\* Assumed of the constants.
IsAuditBounds == NumAudits \in Nat \ {0} /\ MaxSaves \in Nat \ {0}

Audits == 1..NumAudits
Saves  == 0..MaxSaves

\* A file that is there is "whole", or "empty" while a writer has it open, or
\* "mixed" when two writers had it open; json.loads rejects the last two.
FileStates == {"absent", "empty", "whole", "mixed"}

VARIABLES saves,        \* the saves begun on each audit
          artifact,     \* <audit>/audit.json: its state and last whole content
          index,        \* index.json: its state and entries, 0 for none
          writer,       \* where the save of each audit is
          dead,         \* the audits whose process has ended under them
          overlapped    \* two saves were under way at the same time

vars == <<saves, artifact, index, writer, dead, overlapped>>

NoEntries == [a \in Audits |-> 0]
AtRest    == [pc |-> "idle", items |-> NoEntries, unread |-> {}]

Init ==
    /\ saves = [a \in Audits |-> 0]
    /\ artifact = [a \in Audits |-> [state |-> "absent", save |-> 0]]
    /\ index = [state |-> "absent", items |-> NoEntries]
    /\ writer = [a \in Audits |-> AtRest]
    /\ dead = {}
    /\ overlapped = FALSE

-----------------------------------------------------------------------------
Saving(a) == writer[a].pc # "idle"

OnDisk == {a \in Audits : artifact[a].state # "absent"}

\* An artifact json.loads cannot parse is skipped when the index is rebuilt.
Readable(a) == artifact[a].state = "whole"

\* list_audits without interference: the index, or what the artifacts say.
Listing ==
    IF index.state = "whole" THEN index.items
    ELSE [a \in Audits |-> IF Readable(a) THEN artifact[a].save ELSE 0]

\* Writer a goes from one program point to another, as w.
Become(a, from, w) ==
    /\ a \notin dead
    /\ writer[a].pc = from
    /\ writer' = [writer EXCEPT ![a] = w]

Goto(a, from, to) == Become(a, from, [writer[a] EXCEPT !.pc = to])

-----------------------------------------------------------------------------
(* save *)

NextSave(a) ==
    /\ Goto(a, "idle", "artifact")
    /\ saves[a] < MaxSaves
    /\ saves' = [saves EXCEPT ![a] = @ + 1]
    /\ overlapped' = (overlapped \/ \E b \in Audits \ dead : Saving(b))
    /\ UNCHANGED dead

\* Bug: the index is brought up to date before the artifact is written.
BeginSaveIndexFirst(a) ==
    /\ NextSave(a)
    /\ index' = [state |-> "whole", items |-> [Listing EXCEPT ![a] = saves[a] + 1]]
    /\ UNCHANGED artifact

\* write_text of audit.json opens the file.
BeginSave(a) ==
    /\ NextSave(a)
    /\ artifact' = [artifact EXCEPT ![a].state = "empty"]
    /\ UNCHANGED index

WriteArtifact(a) ==
    /\ Goto(a, "artifact", "index")
    /\ artifact' = [artifact EXCEPT ![a] = [state |-> "whole", save |-> saves[a]]]
    /\ UNCHANGED <<saves, index, dead, overlapped>>

-----------------------------------------------------------------------------
(* _update_index, with the list_audits it begins with *)

ReadIndex(a) ==
    /\ index.state = "whole"
    /\ Become(a, "index", [pc |-> "update", items |-> index.items, unread |-> {}])
    /\ UNCHANGED <<saves, artifact, index, dead, overlapped>>

\* Bug: an unreadable index is taken for an empty one.
RebuildNothing(a) ==
    /\ index.state # "whole"
    /\ Become(a, "index", [pc |-> "update", items |-> NoEntries, unread |-> {}])
    /\ UNCHANGED <<saves, artifact, index, dead, overlapped>>

\* No index, or one that cannot be parsed: rebuild it from the artifacts, whose
\* names are collected first.
RebuildIndex(a) ==
    /\ index.state # "whole"
    /\ Become(a, "index", [pc |-> "rebuild", items |-> NoEntries, unread |-> OnDisk])
    /\ UNCHANGED <<saves, artifact, index, dead, overlapped>>

\* Read the next artifact, in the order of their names.
ReadArtifact(a) ==
    /\ writer[a].unread # {}
    /\ LET b == Min(writer[a].unread)
           save == IF Readable(b) THEN artifact[b].save ELSE 0
       IN  Become(a, "rebuild",
              [pc |-> "rebuild", items |-> [writer[a].items EXCEPT ![b] = save],
               unread |-> writer[a].unread \ {b}])
    /\ UNCHANGED <<saves, artifact, index, dead, overlapped>>

EndRebuild(a) ==
    /\ writer[a].unread = {}
    /\ Goto(a, "rebuild", "update")
    /\ UNCHANGED <<saves, artifact, index, dead, overlapped>>

\* The old entry of the audit is replaced; write_text opens index.json.
OpenIndex(a) ==
    /\ Become(a, "update",
          [pc |-> "flush", items |-> [writer[a].items EXCEPT ![a] = saves[a]],
           unread |-> {}])
    /\ index' = [index EXCEPT !.state = "empty"]
    /\ UNCHANGED <<saves, artifact, dead, overlapped>>

Listed(items) == {a \in Audits : items[a] > 0}

\* What becomes of index.json when "items" is written from its beginning.  If
\* another writer that had it open has written first, the end of a longer text
\* sticks out behind this one; texts of unrelated entries have any lengths.
Overwritten(items) ==
    LET old == Listed(index.items)
        new == Listed(items)
    IN  CASE index.state = "empty" -> {"whole"}
          [] index.state = "whole" /\ old \subseteq new /\ old # new -> {"whole"}
          [] index.state = "whole" /\ new \subseteq old /\ old # new -> {"mixed"}
          [] OTHER -> {"whole", "mixed"}

WriteIndex(a) ==
    /\ Become(a, "flush", AtRest)
    /\ \E state \in Overwritten(writer[a].items) :
          index' = [state |-> state, items |-> writer[a].items]
    /\ UNCHANGED <<saves, artifact, dead, overlapped>>

-----------------------------------------------------------------------------
\* The server process ends at any point, once, and is started again: nothing
\* resumes the audits it had, new ones can be created.
Crash ==
    /\ dead = {}
    /\ dead' = {a \in Audits : saves[a] > 0}
    /\ UNCHANGED <<saves, artifact, index, writer, overlapped>>

Save(a) == \/ BeginSave(a) \/ WriteArtifact(a)
           \/ ReadIndex(a) \/ RebuildIndex(a) \/ ReadArtifact(a) \/ EndRebuild(a)
           \/ OpenIndex(a) \/ WriteIndex(a)

Next == (\E a \in Audits : Save(a)) \/ Crash

Spec == Init /\ [][Next]_vars

-----------------------------------------------------------------------------
(* Properties *)

TypeOK ==
    /\ saves \in [Audits -> Saves]
    /\ artifact \in [Audits -> [state: {"absent", "empty", "whole"}, save: Saves]]
    /\ index \in [state: FileStates, items: [Audits -> Saves]]
    /\ writer \in [Audits -> [pc: {"idle", "artifact", "index", "rebuild", "update",
                                   "flush"},
                              items: [Audits -> Saves], unread: SUBSET Audits]]
    /\ dead \in SUBSET Audits
    /\ overlapped \in BOOLEAN

\* Whatever interleaves or crashes, the listing never promises more than the
\* artifacts hold: an entry is of an audit that has been saved, and is no newer
\* than the last whole artifact (save writes audit.json before the index, and
\* GET /api/projects loads every audit the listing names).
ListingBehindArtifact == \A a \in Audits : Listing[a] <= artifact[a].save

\* As long as no two saves have overlapped, an audit that is not inside a save
\* is listed as last saved: also when its server has crashed, also when the
\* crash left index.json unreadable, and whatever later saves rebuild.
SerialListingExact ==
    ~overlapped => \A a \in Audits : ~Saving(a) => Listing[a] = saves[a]
=============================================================================
