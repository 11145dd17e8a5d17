--------------------------- MODULE ResourceDatabase ---------------------------
(***************************************************************************)
(* FolderResourceDatabase (engine/portal/engine/resources/database): the   *)
(* files of a folder, a .pmeta beside each that describes it, the .podb    *)
(* that names the database, and the tables a running program builds from   *)
(* them.                                                                   *)
(*                                                                         *)
(* The constructor reads every .pmeta and writes it again (populate),      *)
(* compares the tables with the folder (validate) and repairs what it can  *)
(* (mend); add and remove change file and table; the destructor writes the *)
(* .podb.  Every file is written in place, so that a program that dies     *)
(* while it writes leaves a truncated one, which reads as empty metadata.  *)
(* Between sessions, and beside them, the user works on the folder.        *)
(*                                                                         *)
(* An id is the database's name and the file's path without its extension. *)
(* A glTF composite brings ids of its parts, all described by the metadata *)
(* of the composite (gltf_loader.cpp:180).                                 *)
(***************************************************************************)
EXTENDS Naturals, FiniteSets

CONSTANTS
  Sources,     \* resource files, by path
  Ids,         \* resource ids
  IdOf,        \* IdOf[s]: the id that belongs to the file s
  PartsOf,     \* PartsOf[s]: the ids of the parts of s, none if s is no composite
  None,
  MaxEdits,    \* bound: changes the user makes to .pmeta files
  MaxCrashes,  \* bound: times the program dies
  MaxCalls     \* bound: calls of add and remove

ASSUME DatabaseAssumption ==
  /\ IsFiniteSet(Sources) /\ IsFiniteSet(Ids) /\ None \notin Ids \cup Sources
  /\ IdOf \in [Sources -> Ids] /\ PartsOf \in [Sources -> SUBSET Ids]
  /\ \A s, t \in Sources : IdOf[s] \notin PartsOf[t]
  /\ MaxEdits \in Nat /\ MaxCrashes \in Nat /\ MaxCalls \in Nat

VARIABLES
  files,      \* the resource files that exist
  pmeta,      \* pmeta[s]: the metadata in the file s + ".pmeta", None if there is none
  podb,       \* the .podb: whether it still names the database, and its resource_count
  phase,      \* where the program is: "closed" when no program runs
  todo,       \* the files the directory iteration has still to visit
  resources,  \* resources[i]: the metadata the program has for i, None if it has none
  report,     \* the DatabaseError of the last validate
  acked,      \* (history) files added and neither removed, damaged nor torn since
  touched,    \* (history) since the last validate of a constructor the program has
              \* died, mend has repaired, the user has worked on the folder, or a
              \* composite or a part of one was added or removed
  edits, crashes, calls

disk == <<files, pmeta, podb>>
bounds == <<edits, crashes, calls>>
vars == <<disk, phase, todo, resources, report, acked, touched, bounds>>

----------------------------------------------------------------------------
(* A SourceMetadata as read from a truncated file has empty strings: an id *)
(* that is nobody's, and a source that is the folder itself.               *)
Truncated == [id |-> None, source |-> None, named |-> FALSE]
Metadata == [id : Ids, source : Sources, named : BOOLEAN] \cup {Truncated}
ASSUME NoneAssumption == None \notin Metadata
Described(s) == [id |-> IdOf[s], source |-> s, named |-> TRUE]

WithMeta == {s \in Sources : pmeta[s] # None}
Known == {i \in DOMAIN resources : resources[i] # None}
Unowned == {s \in files : \A i \in Known : resources[i].source # s}
IsPart(i) == \E s \in Sources : i \in PartsOf[s]
Nothing == [i \in Ids \cup {None} |-> None]

ValidateMetadata(m) ==
  IF m.source \in Sources \ files THEN "MissingResource"
  ELSE IF ~podb.names \/ m.source = None THEN "CorruptMetadata"
  ELSE IF m.id # IdOf[m.source] THEN "CorruptMetadata"
  ELSE IF ~m.named THEN "MissingName" ELSE "Success"
Valid(m) == ValidateMetadata(m) = "Success"
Faulty(s) == s \in WithMeta /\ ~Valid(pmeta[s])

(* A composite on disk vouches for its source, whether it exists or not.   *)
Vouched(s) == \E t \in WithMeta : pmeta[t].source = s /\ s # None /\ PartsOf[s] # {}

Validate(db) ==
  {e \in {"NotFound", "StaleMetadata", "CorruptMetadata", "MissingMetadata"} :
     CASE e = "NotFound" -> Cardinality(Known) # db.count
       [] e = "StaleMetadata" ->
            \E i \in Known : resources[i].source \notin files /\ ~Vouched(resources[i].source)
       [] e = "CorruptMetadata" -> \E s \in Sources : Faulty(s)
       [] e = "MissingMetadata" -> Unowned # {}}

(* Mutants: add writes no file; add takes what it is given.                *)
DumpedNever(metas, table, m) == metas
AcceptsAny(table, m) == table[m.id] = None

(* FolderResourceDatabase::add writes s + ".pmeta", s being the source the *)
(* metadata names.  The parts enrich_metadata finds go to the file only.   *)
Accepts(table, m) == table[m.id] = None /\ Valid(m)
AddedTo(table, m) == IF Accepts(table, m) THEN [table EXCEPT ![m.id] = m] ELSE table
Dumped(metas, table, m) ==
  IF Accepts(table, m) THEN [metas EXCEPT ![m.source] = m] ELSE metas

(* Mutant: remove leaves the entry in the table.                           *)
ErasedNever(i) == resources

(* FolderResourceDatabase::remove deletes the .pmeta of the source that    *)
(* the table names for the id.                                             *)
Erased(i) == [resources EXCEPT ![i] = None]
Unlinked(i) ==
  IF i \in Known /\ resources[i].source # None
  THEN [pmeta EXCEPT ![resources[i].source] = None] ELSE pmeta

(* Another .pmeta has the id of s.                                         *)
Disputed(s) == \E t \in WithMeta \ {s} : pmeta[t].id = IdOf[s]

----------------------------------------------------------------------------
Init ==
  /\ files \in SUBSET Sources
  /\ pmeta = [s \in Sources |-> None]
  /\ podb = [names |-> TRUE, count |-> 0]
  /\ phase = "closed" /\ todo = {} /\ resources = Nothing
  /\ report = {} /\ acked = {} /\ touched = TRUE
  /\ edits = 0 /\ crashes = 0 /\ calls = 0

(* create: load_meta, and the directory iteration of populate begins.      *)
Open ==
  /\ phase = "closed"
  /\ phase' = "populate" /\ todo' = WithMeta /\ resources' = Nothing
  /\ UNCHANGED <<disk, report, acked, touched, bounds>>

(* The iteration gives the files in any order: of two that claim an id the *)
(* last one keeps it.                                                      *)
Populate(s) ==
  LET parts == IF pmeta[s].source = None THEN {} ELSE PartsOf[pmeta[s].source] IN
  /\ phase = "populate" /\ s \in todo
  /\ resources' = [i \in DOMAIN resources |-> IF i \in parts THEN Described(pmeta[s].source)
                                             ELSE IF i = pmeta[s].id THEN pmeta[s]
                                             ELSE resources[i]]
  /\ todo' = todo \ {s}
  /\ UNCHANGED <<disk, phase, report, acked, touched, bounds>>

(* The constructor validates and mend takes the first branch that applies. *)
BeginMend ==
  /\ phase = "populate" /\ todo = {}
  /\ report' = Validate(podb)
  /\ \/ /\ "MissingMetadata" \in report'
        /\ phase' = "create" /\ todo' = Unowned
     \/ /\ "MissingMetadata" \notin report' /\ "CorruptMetadata" \in report'
        /\ phase' = "repair" /\ todo' = WithMeta
     \/ /\ report' \cap {"MissingMetadata", "CorruptMetadata"} = {}
        /\ phase' = "save" /\ todo' = {}
  /\ touched' = FALSE
  /\ UNCHANGED <<disk, resources, acked, bounds>>

(* mend describes a file that has no metadata, without giving it a name.   *)
Undescribed(s) == [id |-> IdOf[s], source |-> s, named |-> FALSE]
CreateMetadata(s) ==
  /\ phase = "create" /\ s \in todo
  /\ resources' = AddedTo(resources, Undescribed(s))
  /\ pmeta' = Dumped(pmeta, resources, Undescribed(s))
  /\ todo' = todo \ {s}
  /\ UNCHANGED <<files, podb, phase, report, acked, touched, bounds>>

EndCreate ==
  /\ phase = "create" /\ todo = {}
  /\ \/ /\ "CorruptMetadata" \in report
        /\ phase' = "repair" /\ todo' = WithMeta
     \/ /\ "CorruptMetadata" \notin report
        /\ phase' = "save" /\ todo' = {}
  /\ UNCHANGED <<disk, resources, report, acked, touched, bounds>>

(* Mutant: mend overlooks the missing name.                                *)
MendedIdOnly(m) ==
  IF ValidateMetadata(m) = "CorruptMetadata" THEN [m EXCEPT !.id = None] ELSE m

(* mend removes the resource of a faulty .pmeta and adds it again with the *)
(* fault mended: a missing name becomes the last part of the id; a wrong   *)
(* id becomes the path of the .pmeta without ".pmeta", which still has the *)
(* extension of the source, so that it is the id of nothing.               *)
Mended(m) ==
  CASE ValidateMetadata(m) = "MissingName" -> [m EXCEPT !.named = TRUE]
    [] ValidateMetadata(m) = "CorruptMetadata" -> [m EXCEPT !.id = None]
    [] OTHER -> m

Repair(s) ==
  /\ phase = "repair" /\ s \in todo
  /\ todo' = todo \ {s}
  /\ \/ ~Faulty(s) /\ UNCHANGED <<pmeta, resources, touched>>
     \/ /\ Faulty(s) /\ touched' = TRUE
        /\ LET m == pmeta[s] IN
             /\ resources' = AddedTo(Erased(m.id), Mended(m))
             /\ pmeta' = Dumped(Unlinked(m.id), Erased(m.id), Mended(m))
  /\ UNCHANGED <<files, podb, phase, report, acked, bounds>>

EndRepair ==
  /\ phase = "repair" /\ todo = {}
  /\ phase' = "save"
  /\ UNCHANGED <<disk, todo, resources, report, acked, touched, bounds>>

(* mend tests for MissingResource, which validate never reports, before it *)
(* would mend the count: save_meta writes back what was read.              *)
EndOpen ==
  /\ phase = "save"
  /\ phase' = "open"
  /\ UNCHANGED <<disk, todo, resources, report, acked, touched, bounds>>

----------------------------------------------------------------------------
Add(s) ==
  /\ phase = "open" /\ calls < MaxCalls /\ calls' = calls + 1
  /\ resources' = AddedTo(resources, Described(s))
  /\ pmeta' = Dumped(pmeta, resources, Described(s))
  /\ acked' = IF Accepts(resources, Described(s)) /\ ~Disputed(s) THEN acked \cup {s} ELSE acked
  /\ touched' = (touched \/ PartsOf[s] # {})
  /\ UNCHANGED <<files, podb, phase, todo, report, edits, crashes>>

Remove(i) ==
  /\ phase = "open" /\ i \in Known /\ calls < MaxCalls /\ calls' = calls + 1
  /\ resources' = Erased(i) /\ pmeta' = Unlinked(i)
  /\ acked' = acked \ {resources[i].source}
  /\ touched' = (touched \/ PartsOf[resources[i].source] # {})
  /\ UNCHANGED <<files, podb, phase, todo, report, edits, crashes>>

(* The destructor: clean_metadata, then validate.                          *)
Close ==
  /\ phase = "open"
  /\ podb' = [podb EXCEPT !.count = Cardinality(Known)]
  /\ report' = Validate(podb')
  /\ phase' = "closed" /\ resources' = Nothing
  /\ UNCHANGED <<files, pmeta, todo, acked, touched, bounds>>

----------------------------------------------------------------------------
(* The program dies.  If it was writing, the file is truncated: populate   *)
(* writes the .pmeta it visits, mend and add the one they accept, mend and *)
(* the destructor the .podb.                                               *)
Die ==
  /\ phase # "closed" /\ crashes < MaxCrashes /\ crashes' = crashes + 1
  /\ phase' = "closed" /\ todo' = {} /\ resources' = Nothing /\ touched' = TRUE
  /\ UNCHANGED <<files, report, edits, calls>>

Writes(s) ==
  \/ phase = "populate" /\ s \in todo
  \/ phase = "repair" /\ \E t \in todo : /\ Faulty(t) /\ pmeta[t].source = s
                                         /\ Accepts(Erased(pmeta[t].id), Mended(pmeta[t]))
  \/ phase = "open" /\ calls < MaxCalls /\ Accepts(resources, Described(s))

DieIdle == Die /\ UNCHANGED <<pmeta, podb, acked>>

DieWriting(s) ==
  /\ Die /\ Writes(s)
  /\ pmeta' = [pmeta EXCEPT ![s] = Truncated]
  /\ acked' = acked \ {s}
  /\ UNCHANGED podb

DieSaving ==
  /\ Die /\ phase \in {"save", "open"}
  /\ podb' = [names |-> FALSE, count |-> 0]
  /\ acked' = {}
  /\ UNCHANGED pmeta

(* What users do in the folder.  Files come and go at any time; a .pmeta   *)
(* is deleted, loses its name or gets the id of another file.              *)
Outside == phase \in {"closed", "open"} /\ edits < MaxEdits /\ edits' = edits + 1
           /\ touched' = TRUE
           /\ UNCHANGED <<podb, phase, todo, resources, report, crashes, calls>>

CreateFile(s) ==
  /\ Outside /\ s \notin files
  /\ files' = files \cup {s} /\ UNCHANGED <<pmeta, acked>>

DeleteFile(s) ==
  /\ Outside /\ s \in files
  /\ files' = files \ {s} /\ acked' = acked \ {s} /\ UNCHANGED pmeta

DeleteMetadata(s) ==
  /\ Outside /\ phase = "closed" /\ s \in WithMeta
  /\ pmeta' = [pmeta EXCEPT ![s] = None] /\ acked' = acked \ {s} /\ UNCHANGED files

ClearName(s) ==
  /\ Outside /\ phase = "closed" /\ s \in WithMeta /\ pmeta[s].named
  /\ pmeta' = [pmeta EXCEPT ![s].named = FALSE] /\ UNCHANGED <<files, acked>>

ChangeId(s, t) ==
  /\ Outside /\ phase = "closed" /\ s \in WithMeta /\ pmeta[s].id \notin {None, IdOf[t]}
  /\ pmeta' = [pmeta EXCEPT ![s] = [id |-> IdOf[t], source |-> s, named |-> TRUE]]
  /\ acked' = acked \ ({s} \cup {u \in Sources : IdOf[u] = IdOf[t]})
  /\ UNCHANGED files

Next ==
  \/ Open \/ BeginMend \/ EndCreate \/ EndRepair \/ EndOpen \/ Close
  \/ \E s \in Sources : Populate(s) \/ CreateMetadata(s) \/ Repair(s) \/ Add(s)
  \/ \E i \in Ids : Remove(i)
  \/ DieIdle \/ DieSaving \/ \E s \in Sources : DieWriting(s)
  \/ \E s \in Sources : CreateFile(s) \/ DeleteFile(s) \/ DeleteMetadata(s) \/ ClearName(s)
  \/ \E s, t \in Sources : s # t /\ ChangeId(s, t)

Spec == Init /\ [][Next]_vars

----------------------------------------------------------------------------
TypeOK ==
  /\ files \in SUBSET Sources
  /\ pmeta \in [Sources -> Metadata \cup {None}]
  /\ podb \in [names : BOOLEAN, count : Nat]
  /\ phase \in {"closed", "populate", "create", "repair", "save", "open"}
  /\ todo \in SUBSET Sources
  /\ resources \in [Ids \cup {None} -> Metadata \cup {None}]
  /\ report \in SUBSET {"NotFound", "StaleMetadata", "CorruptMetadata", "MissingMetadata"}
  /\ acked \in SUBSET Sources /\ touched \in BOOLEAN
  /\ edits \in 0..MaxEdits /\ crashes \in 0..MaxCrashes /\ calls \in 0..MaxCalls

(* Whatever else happens in the folder, and wherever the program died, a   *)
(* resource that add has accepted is known in every later session, under   *)
(* its id and with good metadata on disk, until it is removed or its own   *)
(* files are damaged: mend repairs a lost name and harms no other file.    *)
Durable ==
  phase = "open" =>
    \A s \in acked : /\ resources[IdOf[s]] # None /\ resources[IdOf[s]].source = s
                     /\ s \in WithMeta /\ Valid(pmeta[s])

(* When the constructor returns, find never answers for a file with        *)
(* metadata that validate_metadata would reject.                           *)
MendedIsValid ==
  [][phase # "open" /\ phase' = "open" =>
       \A i \in Known' : IsPart(i) \/ Valid(resources[i])]_vars

(* What the destructor has found in order is in order for the next         *)
(* constructor: in a folder that nobody has touched, table and files agree *)
(* at the end of a session.  (A composite brings parts into the table only *)
(* when it is read, and the removal of a part deletes its .pmeta.)         *)
CleanReopen ==
  [][BeginMend /\ ~touched /\ report = {} => report' = {}]_vars
=============================================================================
