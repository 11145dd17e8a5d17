------------------------ MODULE ResourceDatabaseProofs ------------------------
(***************************************************************************)
(* What holds of ResourceDatabase for every folder and every use of it,    *)
(* proved.                                                                 *)
(*                                                                         *)
(* IInv follows a resource that add accepted through the repair that the   *)
(* constructor makes.  On disk its .pmeta is the only one that claims its  *)
(* id, so the order of the directory iteration does not matter (Claims);   *)
(* every entry of the table is a copy of a .pmeta under the id it claims   *)
(* (Copies), so that what mend removes for another file is never the file  *)
(* of this one; and what is still bad in the table is still to be visited  *)
(* (BadIsAhead).                                                           *)
(*                                                                         *)
(* OrderInv follows a folder nobody else touches from the end of a session *)
(* to the next: its table is what one gets from its .pmeta in any order.   *)
(***************************************************************************)
EXTENDS ResourceDatabase, FiniteSetTheorems, TLAPS

OwnIds == {IdOf[s] : s \in Sources} \cup {None}

\* A .pmeta is about its own file, or truncated, and claims no id of a part.
Filed == \A s \in WithMeta : pmeta[s].source \in {s, None} /\ pmeta[s].id \in OwnIds

\* The metadata of an acknowledged file is good but for its name.
Claims ==
  \A s \in acked :
    /\ s \in files /\ podb.names
    /\ s \in WithMeta /\ pmeta[s].source = s /\ pmeta[s].id = IdOf[s]
    /\ ~Disputed(s)

\* x describes what the table has for id i.
CopyOf(i, x) == x \in WithMeta /\ pmeta[x] = resources[i] /\ pmeta[x].id = i

Reading == phase \in {"populate", "create", "repair"}
Copies ==
  /\ phase = "populate" => todo \subseteq WithMeta
  /\ Reading => \A i \in Known : IsPart(i) \/ \E x \in WithMeta : CopyOf(i, x)

AckedKnown ==
  \A s \in acked :
    /\ Reading => resources[IdOf[s]] = pmeta[s] \/ (phase = "populate" /\ s \in todo)
    /\ phase = "repair" => s \in todo \/ pmeta[s].named
    /\ phase \in {"save", "open"} => /\ resources[IdOf[s]] # None
                                     /\ resources[IdOf[s]].source = s /\ pmeta[s].named

BadIsAhead ==
  /\ phase = "create" /\ "CorruptMetadata" \notin report => \A s \in Sources : ~Faulty(s)
  /\ phase = "repair" =>
       \A i \in Known : \/ IsPart(i) \/ Valid(resources[i])
                        \/ \E x \in todo : CopyOf(i, x)
  /\ phase = "save" => \A i \in Known : IsPart(i) \/ Valid(resources[i])

IInv == TypeOK /\ Filed /\ Claims /\ Copies /\ AckedKnown /\ BadIsAhead

----------------------------------------------------------------------------
(* Metadata *)

LEMMA MetadataFields ==
  ASSUME NEW m \in Metadata
  PROVE  /\ m # None /\ m.id \in Ids \cup {None} /\ m.source \in Sources \cup {None}
         /\ m.named \in BOOLEAN
         /\ m.id = None <=> m.source = None
         /\ m.source = None => m = Truncated
         /\ m.source # None =>
              \A b \in BOOLEAN : /\ [m EXCEPT !.named = b] \in Metadata
                                 /\ [m EXCEPT !.named = b].id = m.id
                                 /\ [m EXCEPT !.named = b].source = m.source
                                 /\ [m EXCEPT !.named = b].named = b
<1>1. m # None
  BY NoneAssumption
<1>2. CASE m = Truncated
  BY <1>1, <1>2 DEF Truncated
<1>3. CASE m \in [id : Ids, source : Sources, named : BOOLEAN]
  BY <1>1, <1>3, DatabaseAssumption DEF Metadata
<1> QED  BY <1>2, <1>3 DEF Metadata

LEMMA MadeMetadata ==
  ASSUME NEW s \in Sources, NEW i \in Ids, NEW b \in BOOLEAN
  PROVE  /\ [id |-> i, source |-> s, named |-> b] \in Metadata
         /\ [id |-> i, source |-> s, named |-> b] # None
BY NoneAssumption DEF Metadata

LEMMA TruncatedMetadata == Truncated \in Metadata /\ Truncated # None
BY NoneAssumption DEF Metadata

\* What validate_metadata asks of a .pmeta.
Good(m) ==
  /\ m.source \in Sources /\ m.source \in files /\ podb.names
  /\ m.id = IdOf[m.source] /\ m.named
LEMMA ValidIsGood == \A m \in Metadata : Valid(m) <=> Good(m)
<1> SUFFICES ASSUME NEW m \in Metadata PROVE Valid(m) <=> Good(m)
  OBVIOUS
<1>1. m.source \in Sources \cup {None} /\ None \notin Sources
  BY MetadataFields, DatabaseAssumption
<1> QED  BY <1>1 DEF Valid, ValidateMetadata, Good

\* Own ids are the ids of no part.
LEMMA NoOwnPart ==
  ASSUME NEW i \in OwnIds
  PROVE  ~IsPart(i) /\ i \in Ids \cup {None}
BY DatabaseAssumption DEF OwnIds, IsPart

LEMMA DescribedTyped ==
  ASSUME NEW s \in Sources
  PROVE  Described(s) \in Metadata /\ Undescribed(s) \in Metadata
BY MadeMetadata, DatabaseAssumption DEF Described, Undescribed

----------------------------------------------------------------------------
(* The constructor *)

LEMMA InitIInv == Init => IInv
<1> SUFFICES ASSUME Init PROVE IInv
  OBVIOUS
<1>1. TypeOK
  BY DatabaseAssumption DEF Init, TypeOK, Nothing
<1>2. WithMeta = {}
  BY DEF Init, WithMeta
<1> QED
  BY <1>1, <1>2 DEF Init, IInv, Filed, Claims, Copies, Reading, AckedKnown, BadIsAhead

LEMMA OpenIInv == ASSUME IInv, Open PROVE IInv'
<1>1. TypeOK'
  BY DEF IInv, TypeOK, Open, disk, bounds, Nothing, WithMeta
<1>2. Filed' /\ Claims'
  BY DEF IInv, Filed, Claims, Open, disk, WithMeta, Disputed
<1>3. Known' = {}
  BY DEF Open, Known, Nothing
<1>4. AckedKnown'
  BY DEF IInv, Claims, AckedKnown, Open, disk, Reading
<1>5. Copies'
  BY <1>3 DEF Copies, Open, disk, WithMeta
<1>6. BadIsAhead'
  BY DEF Open, BadIsAhead
<1> QED  BY <1>1, <1>2, <1>4, <1>5, <1>6 DEF IInv


LEMMA PopulateIInv == ASSUME IInv, NEW s \in Sources, Populate(s) PROVE IInv'
<1> DEFINE m == pmeta[s]
           parts == IF m.source = None THEN {} ELSE PartsOf[m.source]
<1>1. /\ phase = "populate" /\ phase' = "populate" /\ s \in todo /\ todo' = todo \ {s}
      /\ UNCHANGED <<disk, report, acked, touched, bounds>>
      /\ resources' = [i \in DOMAIN resources |-> IF i \in parts THEN Described(m.source)
                                                 ELSE IF i = m.id THEN m ELSE resources[i]]
  BY DEF Populate
<1>2. s \in WithMeta /\ m \in Metadata /\ m # None
  BY <1>1 DEF IInv, TypeOK, Copies, WithMeta
<1>3. /\ m.source \in {s, None} /\ m.id \in OwnIds
      /\ m.id \in Ids \cup {None} /\ \A i \in parts : IsPart(i)
  BY <1>2, NoOwnPart DEF IInv, Filed, IsPart
<1>4. m.source # None => Described(m.source) \in Metadata
  BY <1>3, DescribedTyped
<1> HIDE DEF m
<1>5. resources' \in [Ids \cup {None} -> Metadata \cup {None}]
  BY <1>1, <1>2, <1>4 DEF IInv, TypeOK
<1>6. TypeOK'
  BY <1>1, <1>5 DEF IInv, TypeOK, disk, bounds
<1>7. Filed' /\ Claims'
  BY <1>1 DEF IInv, Filed, Claims, disk, WithMeta, Disputed
<1>8. \A i \in Ids \cup {None} :
        ~IsPart(i) => resources'[i] = IF i = m.id THEN m ELSE resources[i]
  BY <1>1, <1>3 DEF IInv, TypeOK
<1>9. Copies'
  <2>1. todo' \subseteq WithMeta'
    BY <1>1 DEF IInv, Copies, disk, WithMeta
  <2>2. ASSUME NEW i \in Known', ~IsPart(i) PROVE \E x \in WithMeta' : CopyOf(i, x)'
    <3>1. i \in Ids \cup {None} /\ resources'[i] # None
      BY <1>5 DEF Known
    <3>2. CASE i = m.id
      <4>1. CopyOf(i, s)'
        BY <1>1, <1>2, <1>8, <2>2, <3>1, <3>2 DEF CopyOf, m, disk, WithMeta
      <4> QED  BY <4>1 DEF CopyOf
    <3>3. CASE i # m.id
      <4>1. i \in Known /\ resources'[i] = resources[i]
        BY <1>8, <2>2, <3>1, <3>3 DEF Known, IInv, TypeOK
      <4>2. PICK x \in WithMeta : CopyOf(i, x)
        BY <1>1, <2>2, <4>1 DEF IInv, Copies, Reading
      <4> QED  BY <1>1, <4>1, <4>2 DEF CopyOf, disk, WithMeta
    <3> QED  BY <3>2, <3>3
  <2> QED  BY <2>1, <2>2 DEF Copies, IsPart
<1>10. AckedKnown'
  <2> SUFFICES ASSUME NEW a \in acked
               PROVE  resources'[IdOf[a]] = pmeta[a] \/ a \in todo'
    BY <1>1 DEF AckedKnown, disk, Reading
  <2>1. /\ a \in Sources /\ a \in WithMeta /\ pmeta[a].id = IdOf[a] /\ ~Disputed(a)
        /\ IdOf[a] \in Ids /\ ~IsPart(IdOf[a])
    BY NoOwnPart, DatabaseAssumption DEF IInv, TypeOK, Claims, OwnIds
  <2>2. CASE a = s
    BY <1>8, <2>1, <2>2 DEF m
  <2>3. CASE a # s
    <3>1. m.id # IdOf[a]
      BY <1>2, <2>1, <2>3 DEF Disputed, m
    <3>2. resources'[IdOf[a]] = resources[IdOf[a]]
      BY <1>8, <2>1, <3>1
    <3> QED  BY <1>1, <2>3, <3>2 DEF IInv, AckedKnown, Reading
  <2> QED  BY <2>2, <2>3
<1>11. BadIsAhead'
  BY <1>1 DEF BadIsAhead
<1> QED  BY <1>6, <1>7, <1>9, <1>10, <1>11 DEF IInv

\* Between the phases of the constructor nothing is written.
Turn == BeginMend \/ EndCreate \/ EndRepair \/ EndOpen
LEMMA TurnIInv == ASSUME IInv, Turn PROVE IInv'
<1>1. UNCHANGED <<files, pmeta, podb, resources, acked>>
  BY DEF Turn, BeginMend, EndCreate, EndRepair, EndOpen, disk
<1>2. TypeOK'
  <2>1. Validate(podb) \subseteq {"NotFound", "StaleMetadata", "CorruptMetadata", "MissingMetadata"}
    BY DEF Validate
  <2>2. Unowned \subseteq Sources /\ WithMeta \subseteq Sources
    BY DEF Unowned, WithMeta, IInv, TypeOK
  <2>3. report' \subseteq {"NotFound", "StaleMetadata", "CorruptMetadata", "MissingMetadata"}
    BY <2>1 DEF IInv, TypeOK, Turn, BeginMend, EndCreate, EndRepair, EndOpen
  <2>4. todo' \subseteq Sources /\ phase' \in {"create", "repair", "save", "open"}
        /\ touched' \in BOOLEAN /\ UNCHANGED bounds
    BY <2>2 DEF IInv, TypeOK, Turn, BeginMend, EndCreate, EndRepair, EndOpen
  <2> QED  BY <1>1, <2>3, <2>4 DEF IInv, TypeOK, bounds
<1>3. Filed' /\ Claims'
  BY <1>1 DEF IInv, Filed, Claims, WithMeta, Disputed
<1>4. /\ WithMeta' = WithMeta /\ Known' = Known /\ (\A i, x : CopyOf(i, x)' <=> CopyOf(i, x))
      /\ \A s \in Sources : Faulty(s)' <=> Faulty(s)
      /\ \A m : Valid(m)' <=> Valid(m)
  <2>1. WithMeta' = WithMeta /\ Known' = Known
    BY <1>1 DEF WithMeta, Known
  <2>2. \A m : Valid(m)' <=> Valid(m)
    BY <1>1 DEF Valid, ValidateMetadata
  <2> QED  BY <1>1, <2>1, <2>2 DEF CopyOf, Faulty
<1>5. phase' # "populate" /\ (phase' \in {"create", "repair"} => Reading)
  BY DEF Reading, Turn, BeginMend, EndCreate, EndRepair, EndOpen
<1>6. Copies'
  BY <1>4, <1>5 DEF IInv, Copies, Reading, IsPart
<1>7. "CorruptMetadata" \notin Validate(podb) => \A s \in Sources : ~Faulty(s)
  BY DEF Validate
<1>8. ASSUME \A s \in Sources : ~Faulty(s), Reading, NEW i \in Known, ~IsPart(i)
      PROVE  Valid(resources[i])
  <2>1. PICK x \in WithMeta : CopyOf(i, x)
    BY <1>8 DEF IInv, Copies
  <2> QED  BY <1>8, <2>1 DEF CopyOf, Faulty, WithMeta
<1>9. BadIsAhead'
  <2>1. CASE BeginMend
    <3>1. Reading
      BY <2>1 DEF BeginMend, Reading
    <3>2. phase' = "create" /\ "CorruptMetadata" \notin report' => \A s \in Sources : ~Faulty(s)
      BY <2>1, <1>7 DEF BeginMend
    <3>3. phase' = "save" => \A s \in Sources : ~Faulty(s)
      BY <2>1, <1>7 DEF BeginMend
    <3>4. phase' = "repair" => todo' = WithMeta
      BY <2>1 DEF BeginMend
    <3>5. phase' = "repair" => \A i \in Known : IsPart(i) \/ \E x \in todo' : CopyOf(i, x)
      BY <3>1, <3>4 DEF IInv, Copies
    <3>6. phase' = "save" => \A i \in Known : IsPart(i) \/ Valid(resources[i])
      BY <1>8, <3>1, <3>3
    <3> QED  BY <1>1, <1>4, <3>2, <3>5, <3>6 DEF BadIsAhead, IsPart
  <2>2. CASE EndCreate
    <3>1. Reading
      BY <2>2 DEF EndCreate, Reading
    <3>2. phase' = "save" => \A s \in Sources : ~Faulty(s)
      BY <2>2 DEF EndCreate, IInv, BadIsAhead
    <3>3. phase' = "repair" => todo' = WithMeta
      BY <2>2 DEF EndCreate
    <3>4. phase' \in {"repair", "save"}
      BY <2>2 DEF EndCreate
    <3>5. phase' = "repair" => \A i \in Known : IsPart(i) \/ \E x \in todo' : CopyOf(i, x)
      BY <3>1, <3>3 DEF IInv, Copies
    <3>6. phase' = "save" => \A i \in Known : IsPart(i) \/ Valid(resources[i])
      BY <1>8, <3>1, <3>2
    <3> QED  BY <1>1, <1>4, <3>4, <3>5, <3>6 DEF BadIsAhead, IsPart
  <2>3. CASE EndRepair
    <3>1. phase = "repair" /\ todo = {} /\ phase' = "save"
      BY <2>3 DEF EndRepair
    <3>2. \A i \in Known : IsPart(i) \/ Valid(resources[i])
      BY <3>1 DEF IInv, BadIsAhead
    <3> QED  BY <1>1, <1>4, <3>1, <3>2 DEF BadIsAhead, IsPart
  <2>4. CASE EndOpen
    BY <2>4 DEF EndOpen, BadIsAhead
  <2> QED  BY <2>1, <2>2, <2>3, <2>4 DEF Turn
<1>10. AckedKnown'
  <2> SUFFICES ASSUME NEW a \in acked
               PROVE  /\ phase' \in {"create", "repair"} => resources[IdOf[a]] = pmeta[a]
                      /\ phase' = "repair" => a \in todo' \/ pmeta[a].named
                      /\ phase' \in {"save", "open"} => /\ resources[IdOf[a]] # None
                                                        /\ resources[IdOf[a]].source = a
                                                        /\ pmeta[a].named
    BY <1>1, <1>5 DEF AckedKnown, Reading
  <2>1. a \in Sources /\ a \in WithMeta /\ pmeta[a] # None /\ pmeta[a].source = a
    BY DEF IInv, TypeOK, Claims, WithMeta
  <2>2. Reading /\ ~(phase = "populate" /\ todo # {}) => resources[IdOf[a]] = pmeta[a]
    BY DEF IInv, AckedKnown
  <2>3. (\A s \in Sources : ~Faulty(s)) => pmeta[a].named
    <3>1. pmeta[a] \in Metadata
      BY <2>1 DEF IInv, TypeOK
    <3> QED  BY <2>1, <3>1, ValidIsGood DEF Faulty, Good
  <2>4. CASE BeginMend
    <3>1. resources[IdOf[a]] = pmeta[a]
      BY <2>2, <2>4 DEF BeginMend, Reading
    <3>2. phase' = "save" => pmeta[a].named
      BY <2>3, <2>4, <1>7 DEF BeginMend
    <3>3. phase' = "repair" => todo' = WithMeta
      BY <2>4 DEF BeginMend
    <3> QED  BY <2>1, <2>4, <3>1, <3>2, <3>3 DEF BeginMend
  <2>5. CASE EndCreate
    <3>1. resources[IdOf[a]] = pmeta[a]
      BY <2>2, <2>5 DEF EndCreate, Reading
    <3>2. phase' = "save" => pmeta[a].named
      BY <2>3, <2>5 DEF EndCreate, IInv, BadIsAhead
    <3>3. phase' = "repair" => todo' = WithMeta
      BY <2>5 DEF EndCreate
    <3> QED  BY <2>1, <2>5, <3>1, <3>2, <3>3 DEF EndCreate
  <2>6. CASE EndRepair
    <3>1. resources[IdOf[a]] = pmeta[a]
      BY <2>2, <2>6 DEF EndRepair, Reading
    <3>2. pmeta[a].named
      BY <2>6 DEF EndRepair, IInv, AckedKnown
    <3> QED  BY <2>1, <2>6, <3>1, <3>2 DEF EndRepair
  <2>7. CASE EndOpen
    BY <2>7 DEF EndOpen, IInv, AckedKnown
  <2> QED  BY <2>4, <2>5, <2>6, <2>7 DEF Turn
<1> QED  BY <1>2, <1>3, <1>6, <1>9, <1>10 DEF IInv

\* What mend makes for a file without metadata has no name, so add rejects it.
LEMMA CreateMetadataIInv == ASSUME IInv, NEW s \in Sources, CreateMetadata(s) PROVE IInv'
<1>1. ~Accepts(resources, Undescribed(s))
  <2>1. ~Good(Undescribed(s))
    BY DEF Good, Undescribed
  <2> QED  BY <2>1, ValidIsGood, DescribedTyped DEF Accepts
<1>2. /\ UNCHANGED <<files, pmeta, podb, phase, resources, report, acked, touched, bounds>>
      /\ phase = "create" /\ todo' \subseteq todo
  BY <1>1 DEF CreateMetadata, AddedTo, Dumped
<1>3. TypeOK'
  BY <1>2 DEF IInv, TypeOK, bounds
<1>4. Filed' /\ Claims'
  BY <1>2 DEF IInv, Filed, Claims, WithMeta, Disputed
<1>5. Copies' /\ AckedKnown'
  BY <1>2 DEF IInv, Copies, AckedKnown, Reading, Known, CopyOf, WithMeta, IsPart
<1>6. BadIsAhead'
  BY <1>2 DEF IInv, BadIsAhead, Faulty, Valid, ValidateMetadata, WithMeta
<1> QED  BY <1>3, <1>4, <1>5, <1>6 DEF IInv
----------------------------------------------------------------------------
(* mend *)

\* The entry of the table for the id that a .pmeta claims is a copy of a .pmeta that
\* claims it too, and remove unlinks that one.
LEMMA Removed ==
  ASSUME IInv, Reading, NEW s \in WithMeta, NEW y \in Sources, Unlinked(pmeta[s].id)[y] # pmeta[y]
  PROVE  /\ y \in WithMeta /\ pmeta[y].id = pmeta[s].id
         /\ Unlinked(pmeta[s].id)[y] = None
<1> DEFINE i == pmeta[s].id
<1>1. i \in OwnIds /\ i \in Ids \cup {None} /\ ~IsPart(i)
  BY NoOwnPart DEF IInv, Filed
<1> HIDE DEF i
<1>2. i \in Known /\ resources[i].source # None
  BY DEF Unlinked, i
<1>3. PICK x \in WithMeta : CopyOf(i, x)
  BY <1>1, <1>2 DEF IInv, Copies
<1>4. resources[i].source = x
  BY <1>2, <1>3 DEF CopyOf, IInv, Filed
<1>5. Unlinked(i) = [pmeta EXCEPT ![x] = None]
  BY <1>2, <1>4 DEF Unlinked
<1>6. y = x /\ Unlinked(i)[y] = None
  BY <1>5 DEF IInv, TypeOK, i
<1> QED  BY <1>3, <1>6 DEF CopyOf, i

\* What mend adds again is what it removed, with a name; otherwise nothing is added.
LEMMA MendedAccepted ==
  ASSUME IInv, NEW m \in Metadata, ~Valid(m)
  PROVE  /\ Accepts(Erased(m.id), Mended(m)) <=>
              m.source \in Sources /\ m.source \in files /\ podb.names /\ m.id = IdOf[m.source]
         /\ Accepts(Erased(m.id), Mended(m)) =>
              /\ Mended(m) = [m EXCEPT !.named = TRUE] /\ Mended(m) \in Metadata
              /\ Mended(m).id = m.id /\ Mended(m).source = m.source /\ Mended(m).named
              /\ Valid(Mended(m))
<1>1. /\ m.id \in Ids \cup {None} /\ m.source \in Sources \cup {None} /\ m.named \in BOOLEAN
      /\ m.source # None =>
           /\ [m EXCEPT !.named = TRUE] \in Metadata
           /\ [m EXCEPT !.named = TRUE].id = m.id
           /\ [m EXCEPT !.named = TRUE].source = m.source
           /\ [m EXCEPT !.named = TRUE].named
  BY MetadataFields, Zenon
<1>2. None \notin Sources /\ None \notin Ids /\ \A x \in Sources : IdOf[x] \in Ids
  BY DatabaseAssumption
<1>3. ~Good(m)
  BY ValidIsGood
<1>4. CASE m.source \in Sources /\ m.source \in files /\ podb.names /\ m.id = IdOf[m.source]
  <2>1. ~m.named /\ m.source # None
    BY <1>2, <1>3, <1>4 DEF Good
  <2>2. ValidateMetadata(m) = "MissingName"
    BY <1>2, <1>4, <2>1 DEF ValidateMetadata
  <2>3. Mended(m) = [m EXCEPT !.named = TRUE]
    BY <2>2 DEF Mended
  <2>4. /\ Mended(m) \in Metadata /\ Mended(m).id = m.id /\ Mended(m).source = m.source
        /\ Mended(m).named
    BY <1>1, <2>1, <2>3
  <2>5. Valid(Mended(m))
    BY <1>4, <2>4, ValidIsGood DEF Good
  <2>6. Erased(m.id)[m.id] = None
    BY <1>1 DEF Erased, IInv, TypeOK
  <2> QED  BY <1>4, <2>3, <2>4, <2>5, <2>6 DEF Accepts
<1>5. CASE ~(m.source \in Sources /\ m.source \in files /\ podb.names /\ m.id = IdOf[m.source])
  <2>1. CASE m.source \in Sources \ files
    <3>1. ValidateMetadata(m) = "MissingResource"
      BY <2>1 DEF ValidateMetadata
    <3>2. Mended(m) = m
      BY <3>1 DEF Mended
    <3> QED  BY <1>5, <3>2 DEF Accepts
  <2>2. CASE m.source \notin Sources \ files
    <3>1. ValidateMetadata(m) = "CorruptMetadata"
      BY <1>1, <1>5, <2>2 DEF ValidateMetadata
    <3>2. Mended(m) = [m EXCEPT !.id = None]
      BY <3>1 DEF Mended
    <3>3. Mended(m).id = None /\ Mended(m).source = m.source
      <4>1. CASE m \in [id : Ids, source : Sources, named : BOOLEAN]
        BY <3>2, <4>1
      <4>2. CASE m = Truncated
        BY <3>2, <4>2 DEF Truncated
      <4> QED  BY <4>1, <4>2 DEF Metadata
    <3>4. ~Valid(Mended(m))
      BY <1>1, <1>2, <2>2, <3>3 DEF Valid, ValidateMetadata
    <3> QED  BY <1>5, <3>4 DEF Accepts
  <2> QED  BY <2>1, <2>2
<1> QED  BY <1>4, <1>5
LEMMA RepairIInv == ASSUME IInv, NEW s \in Sources, Repair(s) PROVE IInv'
<1>1. /\ phase = "repair" /\ s \in todo /\ todo' = todo \ {s}
      /\ UNCHANGED <<files, podb, phase, report, acked, bounds>> /\ Reading
  BY DEF Repair, Reading
<1>2. CASE ~Faulty(s) /\ UNCHANGED <<pmeta, resources, touched>>
  <2>1. TypeOK' /\ Filed' /\ Claims' /\ Copies'
    BY <1>1, <1>2
    DEF IInv, TypeOK, Filed, Claims, WithMeta, Disputed, Copies, Reading, Known, CopyOf, IsPart, bounds
  <2>2. ASSUME NEW a \in acked, a = s PROVE pmeta[a].named
    <3>1. a \in WithMeta /\ pmeta[a] \in Metadata
      BY DEF IInv, TypeOK, Claims, WithMeta
    <3> QED  BY <1>2, <2>2, <3>1, ValidIsGood DEF Faulty, Good
  <2>3. AckedKnown'
    BY <1>1, <1>2, <2>2 DEF IInv, AckedKnown, Reading
  <2>4. ASSUME NEW i \in Known, ~IsPart(i), ~Valid(resources[i])
        PROVE  \E x \in todo' : CopyOf(i, x)
    <3>1. PICK x \in todo : CopyOf(i, x)
      BY <1>1, <2>4 DEF IInv, BadIsAhead
    <3>2. x # s
      BY <1>2, <2>4, <3>1 DEF CopyOf, Faulty
    <3> QED  BY <1>1, <3>1, <3>2
  <2>5. BadIsAhead'
    BY <1>1, <1>2, <2>4
    DEF BadIsAhead, Known, CopyOf, WithMeta, IsPart, Valid, ValidateMetadata
  <2> QED  BY <2>1, <2>3, <2>5 DEF IInv
<1>3. CASE Faulty(s) /\ touched' = TRUE
           /\ resources' = AddedTo(Erased(pmeta[s].id), Mended(pmeta[s]))
           /\ pmeta' = Dumped(Unlinked(pmeta[s].id), Erased(pmeta[s].id), Mended(pmeta[s]))
  <2> DEFINE m == pmeta[s]
             mm == Mended(m)
  <2>8. PICK e : e = pmeta[s].id
    OBVIOUS
  <2> DEFINE again == Accepts(Erased(e), mm)
  <2>1. s \in WithMeta /\ m \in Metadata /\ ~Valid(m)
    BY <1>3 DEF IInv, TypeOK, Faulty, WithMeta
  <2>2. m.source \in {s, None} /\ e \in OwnIds /\ e \in Ids \cup {None} /\ ~IsPart(e)
    BY <2>1, <2>8, NoOwnPart DEF IInv, Filed
  <2>3. /\ again <=> m.source \in Sources /\ m.source \in files /\ podb.names /\ e = IdOf[m.source]
        /\ again => /\ mm \in Metadata /\ mm.id = e /\ mm.source = s /\ mm.named /\ Valid(mm)
                    /\ mm # None /\ e = IdOf[s]
    <3>1. None \notin Sources
      BY DatabaseAssumption
    <3>2. mm \in Metadata => mm # None
      BY MetadataFields
    <3> HIDE DEF mm
    <3>3. /\ again <=> m.source \in Sources /\ m.source \in files /\ podb.names /\ e = IdOf[m.source]
          /\ again => mm \in Metadata /\ mm.id = m.id /\ mm.source = m.source /\ mm.named /\ Valid(mm)
      BY <2>1, <2>8, MendedAccepted DEF mm
    <3> QED  BY <2>8, <2>2, <3>1, <3>2, <3>3
  <2>4. /\ DOMAIN resources = Ids \cup {None} /\ DOMAIN pmeta = Sources
        /\ Unlinked(e) \in [Sources -> Metadata \cup {None}]
        /\ Erased(e) \in [Ids \cup {None} -> Metadata \cup {None}]
    BY DEF IInv, TypeOK, Unlinked, Erased
  <2>5. \A i \in Ids \cup {None} :
          resources'[i] = IF i = e THEN (IF again THEN mm ELSE None) ELSE resources[i]
    <3> HIDE DEF mm
    <3>1. resources' = IF again THEN [Erased(e) EXCEPT ![mm.id] = mm] ELSE Erased(e)
      BY <1>3, <2>8 DEF AddedTo, mm
    <3>2. \A i \in Ids \cup {None} : Erased(e)[i] = IF i = e THEN None ELSE resources[i]
      BY <2>4 DEF Erased
    <3> HIDE DEF again, m
    <3> QED  BY <2>2, <2>3, <2>4, <3>1, <3>2
  <2>6. \A x \in Sources :
          pmeta'[x] = IF again /\ x = s THEN mm ELSE Unlinked(e)[x]
    <3> HIDE DEF mm
    <3>1. pmeta' = IF again THEN [Unlinked(e) EXCEPT ![mm.source] = mm] ELSE Unlinked(e)
      BY <1>3, <2>8 DEF Dumped, mm
    <3> HIDE DEF again, m
    <3> QED  BY <2>2, <2>3, <2>4, <3>1
  <2>7. ASSUME NEW x \in Sources, Unlinked(e)[x] # pmeta[x]
        PROVE  x \in WithMeta /\ pmeta[x].id = e /\ Unlinked(e)[x] = None
    BY <1>1, <2>1, <2>7, <2>8, Removed
  <2> HIDE DEF m, mm, again
  \* What a .pmeta that claims another id sees of the repair.
  <2>9. ASSUME NEW x \in WithMeta, pmeta[x].id # e PROVE x \in WithMeta' /\ pmeta'[x] = pmeta[x]
    BY <2>6, <2>7, <2>8, <2>9 DEF WithMeta
  <2>10. ASSUME NEW x \in WithMeta' PROVE x \in WithMeta /\ (pmeta'[x] = pmeta[x] \/ (again /\ x = s /\ pmeta'[x] = mm))
    BY <2>1, <2>6, <2>7 DEF WithMeta
  <2>11. TypeOK'
    <3>1. resources' \in [Ids \cup {None} -> Metadata \cup {None}]
      <4>1. resources' = [i \in Ids \cup {None} |-> resources'[i]]
        BY <1>3, <2>4, <2>8 DEF AddedTo, IInv, TypeOK
      <4>2. \A i \in Ids \cup {None} : resources'[i] \in Metadata \cup {None}
        BY <2>3, <2>5 DEF IInv, TypeOK
      <4> QED  BY <4>1, <4>2
    <3>2. pmeta' \in [Sources -> Metadata \cup {None}]
      <4>1. pmeta' = [x \in Sources |-> pmeta'[x]]
        BY <1>3, <2>4, <2>8 DEF Dumped
      <4>2. \A x \in Sources : pmeta'[x] \in Metadata \cup {None}
        BY <2>3, <2>4, <2>6
      <4> QED  BY <4>1, <4>2
    <3> QED  BY <1>1, <1>3, <3>1, <3>2 DEF IInv, TypeOK, bounds
  <2>12. Filed'
    BY <2>2, <2>3, <2>10 DEF IInv, Filed
  <2>13. ASSUME NEW a \in acked
         PROVE  /\ a \in Sources /\ a \in WithMeta' /\ pmeta'[a].source = a /\ pmeta'[a].id = IdOf[a]
                /\ ~Disputed(a)' /\ resources'[IdOf[a]] = pmeta'[a]
                /\ a = s => pmeta'[a].named
                /\ a # s => pmeta'[a] = pmeta[a]
    <3>1. /\ a \in Sources /\ a \in files /\ podb.names /\ a \in WithMeta
          /\ pmeta[a].source = a /\ pmeta[a].id = IdOf[a] /\ ~Disputed(a)
          /\ resources[IdOf[a]] = pmeta[a] /\ IdOf[a] \in Ids
      BY <1>1, DatabaseAssumption DEF IInv, TypeOK, Claims, AckedKnown
    <3>2. CASE a = s
      <4>1. again
        BY <2>3, <2>8, <3>1, <3>2 DEF m
      <4>2. pmeta'[a] = mm /\ resources'[IdOf[a]] = mm /\ e = IdOf[a]
        BY <2>3, <2>5, <2>6, <3>1, <3>2, <4>1
      <4>3. \A x \in WithMeta' \ {a} : pmeta'[x].id # IdOf[a]
        BY <2>10, <3>1, <3>2 DEF Disputed
      <4> QED  BY <2>3, <3>1, <3>2, <4>1, <4>2, <4>3 DEF Disputed, WithMeta
    <3>3. CASE a # s
      <4>1. e # IdOf[a]
        BY <2>1, <2>8, <3>1, <3>3 DEF Disputed
      <4>2. a \in WithMeta' /\ pmeta'[a] = pmeta[a] /\ resources'[IdOf[a]] = resources[IdOf[a]]
        BY <2>5, <2>9, <3>1, <4>1
      <4>3. \A x \in WithMeta' \ {a} : pmeta'[x].id # IdOf[a]
        BY <2>3, <2>10, <3>1, <4>1 DEF Disputed
      <4> QED  BY <3>1, <3>3, <4>2, <4>3 DEF Disputed
    <3> QED  BY <3>2, <3>3
  <2>14. Claims'
    BY <1>1, <2>13 DEF IInv, Claims
  <2>15. AckedKnown'
    BY <1>1, <2>13 DEF IInv, AckedKnown, Reading
  \* The copies that are left.
  <2>16. ASSUME NEW i \in Ids \cup {None}, i # e, NEW x, CopyOf(i, x)
         PROVE  CopyOf(i, x)' /\ x # s
    <3>1. x \in WithMeta /\ pmeta[x].id = i /\ pmeta[x] = resources[i]
      BY <2>16 DEF CopyOf
    <3> QED  BY <2>5, <2>8, <2>9, <2>16, <3>1 DEF CopyOf
  <2>17. ASSUME NEW i \in Known', i # e PROVE i \in Known /\ i \in Ids \cup {None} /\ resources'[i] = resources[i]
    BY <2>5, <2>11, <2>4, <2>17 DEF Known, TypeOK
  <2>18. ASSUME e \in Known' PROVE again /\ resources'[e] = mm /\ CopyOf(e, s)'
    <3>1. again /\ resources'[e] = mm
      BY <2>2, <2>5, <2>18 DEF Known
    <3>2. pmeta'[s] = mm /\ s \in WithMeta'
      BY <2>3, <2>6, <3>1 DEF WithMeta
    <3> QED  BY <2>3, <3>1, <3>2 DEF CopyOf
  <2>19. Copies'
    <3>1. ASSUME NEW i \in Known', ~IsPart(i) PROVE \E x \in WithMeta' : CopyOf(i, x)'
      <4>1. CASE i = e
        BY <2>18, <4>1 DEF CopyOf
      <4>2. CASE i # e
        <5>1. i \in Known /\ i \in Ids \cup {None}
          BY <2>17, <4>2
        <5>2. PICK x \in WithMeta : CopyOf(i, x)
          BY <1>1, <3>1, <5>1 DEF IInv, Copies
        <5>3. CopyOf(i, x)'
          BY <2>16, <4>2, <5>1, <5>2
        <5> QED  BY <5>3 DEF CopyOf
      <4> QED  BY <4>1, <4>2
    <3> QED  BY <1>1, <3>1 DEF Copies, IsPart
  <2>20. BadIsAhead'
    <3>1. \A n : Valid(n)' <=> Valid(n)
      BY <1>1 DEF Valid, ValidateMetadata
    <3>2. ASSUME NEW i \in Known', ~IsPart(i), ~Valid(resources'[i]) PROVE \E x \in todo' : CopyOf(i, x)'
      <4>1. i # e
        BY <2>3, <2>18, <3>2
      <4>2. i \in Known /\ i \in Ids \cup {None} /\ resources'[i] = resources[i]
        BY <2>17, <4>1
      <4>3. PICK x \in todo : CopyOf(i, x)
        BY <1>1, <3>2, <4>2 DEF IInv, BadIsAhead
      <4>4. CopyOf(i, x)' /\ x # s
        BY <2>16, <4>1, <4>2, <4>3
      <4> QED  BY <1>1, <4>3, <4>4
    <3>3. \A i \in Known' : IsPart(i) \/ Valid(resources[i])' \/ \E x \in todo' : CopyOf(i, x)'
      BY <3>1, <3>2
    <3> QED  BY <1>1, <3>3 DEF BadIsAhead, IsPart
  <2> QED  BY <2>11, <2>12, <2>14, <2>15, <2>19, <2>20 DEF IInv
<1> QED  BY <1>2, <1>3 DEF Repair
----------------------------------------------------------------------------
(* Calls, crashes, and the user of the folder *)

\* An id is known for one acknowledged file at most, so add takes no other's place.
LEMMA AddIInv == ASSUME IInv, NEW s \in Sources, Add(s) PROVE IInv'
<1>1. /\ phase = "open" /\ phase' = "open" /\ UNCHANGED <<files, podb, todo, report, edits, crashes>>
      /\ calls < MaxCalls /\ calls' = calls + 1 /\ touched' = (touched \/ PartsOf[s] # {})
      /\ resources' = AddedTo(resources, Described(s))
      /\ pmeta' = Dumped(pmeta, resources, Described(s))
      /\ acked' = IF Accepts(resources, Described(s)) /\ ~Disputed(s) THEN acked \cup {s} ELSE acked
  BY DEF Add
<1>2. /\ Described(s) \in Metadata /\ Described(s) # None /\ IdOf[s] \in Ids
      /\ Described(s).id = IdOf[s] /\ Described(s).source = s /\ Described(s).named
  BY DescribedTyped, MetadataFields, DatabaseAssumption DEF Described
<1>3. calls' \in 0..MaxCalls
  BY <1>1, DatabaseAssumption DEF IInv, TypeOK
<1>4. Copies' /\ BadIsAhead'
  BY <1>1 DEF Copies, BadIsAhead, Reading
<1>5. CASE ~Accepts(resources, Described(s))
  <2>1. UNCHANGED <<resources, pmeta, acked>>
    BY <1>1, <1>5 DEF AddedTo, Dumped
  <2>2. TypeOK' /\ Filed' /\ Claims' /\ AckedKnown'
    BY <1>1, <1>3, <2>1
    DEF IInv, TypeOK, Filed, Claims, WithMeta, Disputed, AckedKnown, Reading
  <2> QED  BY <1>4, <2>2 DEF IInv
<1>6. CASE Accepts(resources, Described(s))
  <2>1. /\ resources' = [resources EXCEPT ![IdOf[s]] = Described(s)]
        /\ pmeta' = [pmeta EXCEPT ![s] = Described(s)]
    BY <1>1, <1>2, <1>6 DEF AddedTo, Dumped
  <2>2. resources[IdOf[s]] = None /\ s \in files /\ podb.names
    BY <1>2, <1>6, ValidIsGood DEF Accepts, Good
  <2>3. acked' \subseteq acked \cup {s} /\ (s \in acked' /\ s \notin acked => ~Disputed(s))
    BY <1>1
  <2>4. TypeOK'
    BY <1>1, <1>2, <1>3, <2>1, <2>3 DEF IInv, TypeOK
  <2>5. /\ WithMeta' = WithMeta \cup {s} /\ pmeta'[s] = Described(s)
        /\ \A x \in Sources \ {s} : pmeta'[x] = pmeta[x]
    BY <1>2, <2>1 DEF WithMeta, IInv, TypeOK
  <2>6. Filed'
    BY <1>2, <2>5 DEF IInv, Filed, OwnIds, WithMeta
  <2>7. s \notin acked
    BY <1>1, <2>2 DEF IInv, AckedKnown
  <2>8. ASSUME NEW a \in acked
        PROVE  /\ a # s /\ a \in Sources /\ IdOf[a] # IdOf[s] /\ IdOf[a] \in Ids
               /\ resources[IdOf[a]] # None /\ resources[IdOf[a]].source = a /\ pmeta[a].named
               /\ a \in files /\ podb.names /\ a \in WithMeta /\ pmeta[a].source = a
               /\ pmeta[a].id = IdOf[a] /\ ~Disputed(a)
    BY <1>1, <2>2, <2>7, DatabaseAssumption DEF IInv, TypeOK, AckedKnown, Claims
  <2>9. ASSUME NEW a \in acked PROVE ~Disputed(a)'
    BY <1>2, <2>5, <2>8 DEF Disputed, WithMeta
  <2>10. s \in acked' => ~Disputed(s)'
    BY <2>3, <2>5, <2>7 DEF Disputed, WithMeta
  <2>11. Claims'
    BY <1>1, <1>2, <2>2, <2>3, <2>5, <2>8, <2>9, <2>10 DEF Claims
  <2>12. AckedKnown'
    <3>1. \A a \in acked : resources'[IdOf[a]] = resources[IdOf[a]] /\ pmeta'[a] = pmeta[a]
      BY <2>1, <2>5, <2>8 DEF IInv, TypeOK
    <3>2. resources'[IdOf[s]] = Described(s)
      BY <1>2, <2>1 DEF IInv, TypeOK
    <3> QED  BY <1>1, <1>2, <2>3, <2>5, <2>8, <3>1, <3>2 DEF AckedKnown, Reading
  <2> QED  BY <1>4, <2>4, <2>6, <2>11, <2>12 DEF IInv
<1> QED  BY <1>5, <1>6

\* remove deletes the .pmeta of the file the table names, which is not acknowledged any more.
LEMMA RemoveIInv == ASSUME IInv, NEW i \in Ids, Remove(i) PROVE IInv'
<1>1. /\ phase = "open" /\ phase' = "open" /\ UNCHANGED <<files, podb, todo, report, edits, crashes>>
      /\ calls < MaxCalls /\ calls' = calls + 1 /\ i \in Known
      /\ touched' = (touched \/ PartsOf[resources[i].source] # {})
      /\ resources' = Erased(i) /\ pmeta' = Unlinked(i)
      /\ acked' = acked \ {resources[i].source}
  BY DEF Remove
<1>2. TypeOK'
  <2>1. resources' \in [Ids \cup {None} -> Metadata \cup {None}]
    BY <1>1 DEF IInv, TypeOK, Erased
  <2>2. pmeta' \in [Sources -> Metadata \cup {None}]
    BY <1>1 DEF IInv, TypeOK, Unlinked
  <2>3. calls' \in 0..MaxCalls
    BY <1>1, DatabaseAssumption DEF IInv, TypeOK
  <2> QED  BY <1>1, <2>1, <2>2, <2>3 DEF IInv, TypeOK
<1>3. Copies' /\ BadIsAhead'
  BY <1>1 DEF Copies, BadIsAhead, Reading
<1>4. \A x \in Sources : pmeta'[x] = pmeta[x] \/ (pmeta'[x] = None /\ x = resources[i].source)
  BY <1>1 DEF IInv, TypeOK, Unlinked
<1>5. WithMeta' \subseteq WithMeta /\ \A x \in WithMeta' : pmeta'[x] = pmeta[x]
  BY <1>4 DEF WithMeta
<1>6. Filed'
  BY <1>5 DEF IInv, Filed
<1>7. ASSUME NEW a \in acked'
      PROVE  /\ a \in acked /\ a \in Sources /\ IdOf[a] \in Ids /\ IdOf[a] # i
             /\ pmeta'[a] = pmeta[a] /\ resources'[IdOf[a]] = resources[IdOf[a]]
             /\ a \in WithMeta'
  <2>1. a \in acked /\ a \in Sources /\ IdOf[a] \in Ids /\ resources[IdOf[a]].source = a /\ a \in WithMeta
    BY <1>1, DatabaseAssumption DEF IInv, TypeOK, AckedKnown, Claims
  <2>2. IdOf[a] # i /\ pmeta'[a] = pmeta[a]
    BY <1>1, <1>4, <2>1
  <2>3. resources'[IdOf[a]] = resources[IdOf[a]]
    BY <1>1, <2>1, <2>2 DEF Erased, IInv, TypeOK
  <2> QED  BY <2>1, <2>2, <2>3 DEF WithMeta
<1>8. Claims'
  BY <1>1, <1>5, <1>7 DEF IInv, Claims, Disputed
<1>9. AckedKnown'
  BY <1>1, <1>7 DEF IInv, AckedKnown, Reading
<1> QED  BY <1>2, <1>3, <1>6, <1>8, <1>9 DEF IInv

\* What is left when no program runs.
LEMMA ClosedIInv == ASSUME phase' = "closed", TypeOK', Filed', Claims' PROVE IInv'
BY DEF IInv, Copies, Reading, AckedKnown, BadIsAhead

LEMMA CloseIInv == ASSUME IInv, Close PROVE IInv'
<1>1. /\ phase' = "closed" /\ podb' = [podb EXCEPT !.count = Cardinality(Known)]
      /\ report' = Validate(podb') /\ resources' = Nothing
      /\ UNCHANGED <<files, pmeta, todo, acked, touched, bounds>>
  BY DEF Close
<1>2. Cardinality(Known) \in Nat
  <2>1. Known \subseteq Ids \cup {None}
    BY DEF Known, IInv, TypeOK
  <2>2. IsFiniteSet(Ids \cup {None})
    BY DatabaseAssumption, FS_AddElement
  <2> QED  BY <2>1, <2>2, FS_Subset, FS_CardinalityType
<1>3. podb' \in [names : BOOLEAN, count : Nat] /\ podb'.names = podb.names
  BY <1>1, <1>2 DEF IInv, TypeOK
<1>4. report' \subseteq {"NotFound", "StaleMetadata", "CorruptMetadata", "MissingMetadata"}
  BY <1>1 DEF Validate
<1>5. TypeOK'
  BY <1>1, <1>3, <1>4 DEF IInv, TypeOK, Nothing, bounds
<1>6. Filed' /\ Claims'
  BY <1>1, <1>3 DEF IInv, Filed, Claims, WithMeta, Disputed
<1> QED  BY <1>1, <1>5, <1>6, ClosedIInv

LEMMA DieIInv ==
  ASSUME IInv, DieIdle \/ DieSaving \/ \E s \in Sources : DieWriting(s)
  PROVE  IInv'
<1>1. /\ phase' = "closed" /\ todo' = {} /\ resources' = Nothing /\ touched' = TRUE
      /\ UNCHANGED <<files, report, edits, calls>> /\ crashes' \in 0..MaxCrashes
  BY DatabaseAssumption DEF IInv, TypeOK, DieIdle, DieSaving, DieWriting, Die
<1>2. CASE DieIdle
  <2>1. UNCHANGED <<pmeta, podb, acked>>
    BY <1>2 DEF DieIdle
  <2>2. TypeOK' /\ Filed' /\ Claims'
    BY <1>1, <2>1 DEF IInv, TypeOK, Filed, Claims, WithMeta, Disputed, Nothing
  <2> QED  BY <1>1, <2>2, ClosedIInv
<1>3. CASE DieSaving
  <2>1. podb' = [names |-> FALSE, count |-> 0] /\ acked' = {} /\ UNCHANGED pmeta
    BY <1>3 DEF DieSaving
  <2>2. TypeOK' /\ Filed' /\ Claims'
    BY <1>1, <2>1 DEF IInv, TypeOK, Filed, Claims, WithMeta, Nothing
  <2> QED  BY <1>1, <2>2, ClosedIInv
<1>4. ASSUME NEW s \in Sources, DieWriting(s) PROVE IInv'
  <2>1. pmeta' = [pmeta EXCEPT ![s] = Truncated] /\ acked' = acked \ {s} /\ UNCHANGED podb
    BY <1>4 DEF DieWriting
  <2>2. TypeOK'
    BY <1>1, <2>1, TruncatedMetadata DEF IInv, TypeOK, Nothing
  <2>3. /\ WithMeta' = WithMeta \cup {s} /\ pmeta'[s] = Truncated
        /\ \A x \in Sources \ {s} : pmeta'[x] = pmeta[x]
    BY <2>1, TruncatedMetadata DEF WithMeta, IInv, TypeOK
  <2>4. Truncated.id = None /\ Truncated.source = None
    BY DEF Truncated
  <2>5. Filed'
    BY <2>3, <2>4 DEF IInv, Filed, OwnIds, WithMeta
  <2>6. Claims'
    <3>1. ASSUME NEW a \in acked' PROVE a \in acked /\ a # s /\ a \in Sources /\ IdOf[a] # None
      <4>1. a \in acked /\ a # s /\ a \in Sources
        BY <2>1, <3>1 DEF IInv, TypeOK
      <4>2. IdOf[a] \in Ids /\ None \notin Ids
        BY <4>1, DatabaseAssumption
      <4> QED  BY <4>1, <4>2
    <3> QED  BY <1>1, <2>1, <2>3, <2>4, <3>1 DEF IInv, Claims, Disputed, WithMeta
  <2> QED  BY <1>1, <2>2, <2>5, <2>6, ClosedIInv
<1> QED  BY <1>2, <1>3, <1>4

\* The user makes no .pmeta claim the id of an acknowledged file.
UserAct(s) ==
  CreateFile(s) \/ DeleteFile(s) \/ DeleteMetadata(s) \/ ClearName(s)
  \/ \E t \in Sources : s # t /\ ChangeId(s, t)
LEMMA UserIInv == ASSUME IInv, NEW s \in Sources, UserAct(s) PROVE IInv'
<1>1. /\ UNCHANGED <<podb, phase, todo, resources, report, crashes, calls>>
      /\ phase \in {"closed", "open"} /\ touched' = TRUE /\ edits' \in 0..MaxEdits
  BY DatabaseAssumption
  DEF UserAct, CreateFile, DeleteFile, DeleteMetadata, ClearName, ChangeId, Outside, IInv, TypeOK
<1>2. CASE UNCHANGED pmeta /\ files' \in SUBSET Sources /\ acked' \subseteq acked
           /\ \A a \in acked' : a \in files'
  <2>1. TypeOK' /\ Filed'
    BY <1>1, <1>2 DEF IInv, TypeOK, Filed, WithMeta
  <2>2. Claims'
    BY <1>1, <1>2 DEF IInv, Claims, WithMeta, Disputed
  <2>3. Copies' /\ BadIsAhead'
    BY <1>1 DEF Copies, BadIsAhead, Reading
  <2>4. AckedKnown'
    BY <1>1, <1>2 DEF IInv, AckedKnown, Reading
  <2> QED  BY <2>1, <2>2, <2>3, <2>4 DEF IInv
<1>3. CASE CreateFile(s) \/ DeleteFile(s)
  <2>1. UNCHANGED pmeta /\ files' \in SUBSET Sources /\ acked' \subseteq acked
        /\ \A a \in acked' : a \in files'
    BY <1>3 DEF CreateFile, DeleteFile, IInv, TypeOK, Claims
  <2> QED  BY <1>2, <2>1
<1>4. CASE DeleteMetadata(s)
  <2>1. /\ phase = "closed" /\ pmeta' = [pmeta EXCEPT ![s] = None] /\ acked' = acked \ {s}
        /\ UNCHANGED files
    BY <1>4 DEF DeleteMetadata
  <2>2. TypeOK'
    BY <1>1, <2>1 DEF IInv, TypeOK
  <2>3. WithMeta' = WithMeta \ {s} /\ \A x \in Sources \ {s} : pmeta'[x] = pmeta[x]
    BY <2>1 DEF WithMeta, IInv, TypeOK
  <2>4. Filed' /\ Claims'
    BY <1>1, <2>1, <2>3 DEF IInv, Filed, Claims, Disputed, WithMeta
  <2> QED  BY <1>1, <2>1, <2>2, <2>4, ClosedIInv
<1>5. CASE ClearName(s)
  <2>1. /\ phase = "closed" /\ s \in WithMeta /\ pmeta[s].named
        /\ pmeta' = [pmeta EXCEPT ![s].named = FALSE] /\ UNCHANGED <<files, acked>>
    BY <1>5 DEF ClearName
  <2>2. pmeta[s] \in Metadata
    BY <2>1 DEF WithMeta, IInv, TypeOK
  <2>3. pmeta[s].source # None
    BY <2>1, <2>2, MetadataFields DEF Truncated
  <2> DEFINE m == [pmeta[s] EXCEPT !.named = FALSE]
  <2>4. m \in Metadata /\ m # None /\ m.id = pmeta[s].id /\ m.source = pmeta[s].source
    <3>1. m \in Metadata /\ m.id = pmeta[s].id /\ m.source = pmeta[s].source
      BY <2>2, <2>3, MetadataFields
    <3> QED  BY <3>1, NoneAssumption
  <2>5. pmeta' = [pmeta EXCEPT ![s] = m]
    BY <2>1
  <2> HIDE DEF m
  <2>6. TypeOK'
    BY <1>1, <2>1, <2>4, <2>5 DEF IInv, TypeOK
  <2>7. WithMeta' = WithMeta
        /\ \A x \in WithMeta : pmeta'[x].id = pmeta[x].id /\ pmeta'[x].source = pmeta[x].source
    BY <2>1, <2>4, <2>5 DEF WithMeta, IInv, TypeOK
  <2>8. Filed' /\ Claims'
    BY <1>1, <2>1, <2>7 DEF IInv, Filed, Claims, Disputed
  <2> QED  BY <1>1, <2>1, <2>6, <2>8, ClosedIInv
<1>6. ASSUME NEW t \in Sources, ChangeId(s, t) PROVE IInv'
  <2> DEFINE m == [id |-> IdOf[t], source |-> s, named |-> TRUE]
  <2>1. /\ phase = "closed" /\ s \in WithMeta /\ pmeta' = [pmeta EXCEPT ![s] = m]
        /\ acked' = acked \ ({s} \cup {u \in Sources : IdOf[u] = IdOf[t]}) /\ UNCHANGED files
    BY <1>6 DEF ChangeId
  <2>2. m \in Metadata /\ m # None /\ m.id = IdOf[t] /\ m.source = s
    BY MadeMetadata, DatabaseAssumption
  <2> HIDE DEF m
  <2>3. TypeOK'
    BY <1>1, <2>1, <2>2 DEF IInv, TypeOK
  <2>4. WithMeta' = WithMeta /\ pmeta'[s] = m /\ \A x \in Sources \ {s} : pmeta'[x] = pmeta[x]
    BY <2>1, <2>2 DEF WithMeta, IInv, TypeOK
  <2>5. Filed'
    BY <2>2, <2>4 DEF IInv, Filed, OwnIds, WithMeta
  <2>6. Claims'
    <3>1. ASSUME NEW a \in acked'
          PROVE  a \in acked /\ a \in Sources /\ a # s /\ IdOf[a] # IdOf[t]
      BY <2>1, <3>1 DEF IInv, TypeOK
    <3> QED  BY <1>1, <2>1, <2>2, <2>4, <3>1 DEF IInv, Claims, Disputed, WithMeta
  <2> QED  BY <1>1, <2>1, <2>3, <2>5, <2>6, ClosedIInv
<1> QED  BY <1>3, <1>4, <1>5, <1>6 DEF UserAct

LEMMA StutterIInv == ASSUME IInv, UNCHANGED vars PROVE IInv'
<1>1. UNCHANGED <<files, pmeta, podb, phase, todo, resources, report, acked, touched,
                  edits, crashes, calls>>
  BY DEF vars, disk, bounds
<1>2. TypeOK' /\ Filed' /\ Claims'
  BY <1>1 DEF IInv, TypeOK, Filed, Claims, WithMeta, Disputed
<1>3. Copies' /\ AckedKnown'
  BY <1>1 DEF IInv, Copies, AckedKnown, Reading, Known, CopyOf, WithMeta, IsPart
<1>4. BadIsAhead'
  <2>1. Known' = Known /\ (\A i, x : CopyOf(i, x)' <=> CopyOf(i, x))
    BY <1>1 DEF Known, CopyOf, WithMeta
  <2>2. (\A m : Valid(m)' <=> Valid(m)) /\ (\A s \in Sources : Faulty(s)' <=> Faulty(s))
    BY <1>1 DEF Faulty, Valid, ValidateMetadata, WithMeta
  <2> QED  BY <1>1, <2>1, <2>2 DEF IInv, BadIsAhead, IsPart
<1> QED  BY <1>2, <1>3, <1>4 DEF IInv

LEMMA NextIInv == ASSUME IInv, [Next]_vars PROVE IInv'
<1>1. CASE Open
  BY <1>1, OpenIInv
<1>2. CASE BeginMend \/ EndCreate \/ EndRepair \/ EndOpen
  BY <1>2, TurnIInv DEF Turn
<1>3. CASE Close
  BY <1>3, CloseIInv
<1>4. CASE \E s \in Sources : Populate(s) \/ CreateMetadata(s) \/ Repair(s) \/ Add(s)
  BY <1>4, PopulateIInv, CreateMetadataIInv, RepairIInv, AddIInv
<1>5. CASE \E i \in Ids : Remove(i)
  BY <1>5, RemoveIInv
<1>6. CASE DieIdle \/ DieSaving \/ \E s \in Sources : DieWriting(s)
  BY <1>6, DieIInv
<1>7. CASE \E s \in Sources : CreateFile(s) \/ DeleteFile(s) \/ DeleteMetadata(s) \/ ClearName(s)
  BY <1>7, UserIInv DEF UserAct
<1>8. CASE \E s, t \in Sources : s # t /\ ChangeId(s, t)
  BY <1>8, UserIInv DEF UserAct
<1>9. CASE UNCHANGED vars
  BY <1>9, StutterIInv
<1> QED  BY <1>1, <1>2, <1>3, <1>4, <1>5, <1>6, <1>7, <1>8, <1>9 DEF Next

----------------------------------------------------------------------------
(* Sessions without a hitch *)

\* No file that is a composite has the id of another file.
UniqueComposites == \A s, t \in Sources : PartsOf[s] # {} /\ IdOf[s] = IdOf[t] => s = t

AllValid == \A s \in Sources : ~Faulty(s)
Keys == {i \in Ids : \E s \in WithMeta : i = IdOf[s] \/ i \in PartsOf[s]}

\* The table is what one gets from the .pmeta of the files in V, if they are all good:
\* of files that share an id it has one.
InOrder(V) ==
  /\ \A i \in Known : \E s \in V : /\ resources[i] = Described(s)
                                   /\ i = IdOf[s] \/ i \in PartsOf[s]
  /\ \A s \in V : PartsOf[s] # {} =>
       resources[IdOf[s]] = Described(s) /\ PartsOf[s] \subseteq Known

\* What the destructor has found in order.
LeftInOrder ==
  /\ AllValid /\ files \subseteq WithMeta /\ podb.count = Cardinality(Keys)
  /\ \A s, t \in WithMeta : IdOf[s] = IdOf[t] => s = t

OrderInv ==
  /\ phase = "populate" /\ AllValid => InOrder(WithMeta \ todo)
  /\ phase = "create" => /\ AllValid => InOrder(WithMeta)
                         /\ "CorruptMetadata" \in report => ~AllValid
  /\ phase = "repair" /\ ~touched => \E s \in todo : Faulty(s)
  /\ phase \in {"save", "open"} /\ ~touched => AllValid /\ InOrder(WithMeta)
  /\ phase \in {"closed", "populate"} /\ ~touched /\ report = {} =>
       /\ LeftInOrder
       /\ phase = "populate" => \A s \in WithMeta \ todo : resources[IdOf[s]] = Described(s)

LEMMA DescribedIs ==
  ASSUME NEW s \in Sources
  PROVE  /\ Described(s).id = IdOf[s] /\ Described(s).source = s /\ Described(s) # None
         /\ IdOf[s] \in Ids /\ PartsOf[s] \in SUBSET Ids
         /\ \A t \in Sources : Described(s) = Described(t) => s = t
         /\ \A t \in Sources : IdOf[s] \notin PartsOf[t]
BY DescribedTyped, NoneAssumption, DatabaseAssumption DEF Described

\* Metadata that is good describes its file.
LEMMA AllDescribed ==
  ASSUME IInv, AllValid, NEW s \in WithMeta
  PROVE  pmeta[s] = Described(s) /\ s \in Sources /\ s \in files /\ podb.names
<1>1. s \in Sources /\ pmeta[s] # None
  BY DEF WithMeta
<1>2. pmeta[s] \in Metadata /\ Valid(pmeta[s])
  BY <1>1 DEF IInv, TypeOK, AllValid, Faulty
<1>3. Good(pmeta[s])
  BY <1>2, ValidIsGood
<1>4. pmeta[s].source = s
  BY <1>1, <1>3, DatabaseAssumption DEF IInv, Filed, Good
<1>5. pmeta[s] \in [id : Ids, source : Sources, named : BOOLEAN]
  BY <1>1, <1>2, <1>4, DatabaseAssumption DEF Metadata, Truncated
<1>6. pmeta[s] = [id |-> pmeta[s].id, source |-> pmeta[s].source, named |-> pmeta[s].named]
  BY <1>5
<1> QED  BY <1>1, <1>3, <1>4, <1>5, <1>6 DEF Good, Described

\* What the order of a folder and its table depends on.
LEMMA SameDisk ==
  ASSUME UNCHANGED <<files, pmeta, podb>>
  PROVE  /\ WithMeta' = WithMeta /\ Keys' = Keys
         /\ \A s \in Sources : Faulty(s)' <=> Faulty(s)
         /\ (AllValid' <=> AllValid) /\ (LeftInOrder' <=> LeftInOrder)
<1>1. WithMeta' = WithMeta
  BY DEF WithMeta
<1>2. \A s \in Sources : Faulty(s)' <=> Faulty(s)
  BY <1>1 DEF Faulty, Valid, ValidateMetadata
<1>3. AllValid' <=> AllValid
  BY <1>2 DEF AllValid
<1>4. Keys' = Keys
  BY <1>1 DEF Keys
<1> QED  BY <1>1, <1>2, <1>3, <1>4 DEF LeftInOrder

\* What validate reports.
LEMMA ReportIs ==
  ASSUME NEW db
  PROVE  /\ "NotFound" \in Validate(db) <=> Cardinality(Known) # db.count
         /\ "StaleMetadata" \in Validate(db) <=>
              \E i \in Known : resources[i].source \notin files /\ ~Vouched(resources[i].source)
         /\ "CorruptMetadata" \in Validate(db) <=> ~AllValid
         /\ "MissingMetadata" \in Validate(db) <=> Unowned # {}
         /\ \A e \in Validate(db) :
              e \in {"NotFound", "StaleMetadata", "CorruptMetadata", "MissingMetadata"}
BY DEF Validate, AllValid

\* The ids of a table in order, if each file has its own.
LEMMA TableKeys ==
  ASSUME InOrder(WithMeta), \A s \in WithMeta : resources[IdOf[s]] = Described(s), IInv
  PROVE  Known = Keys
<1>1. ASSUME NEW i \in Known
      PROVE  i \in Keys
  <2>1. PICK s \in WithMeta : i = IdOf[s] \/ i \in PartsOf[s]
    BY DEF InOrder
  <2>2. s \in Sources
    BY DEF WithMeta
  <2>3. i \in Ids
    BY <2>1, <2>2, DescribedIs
  <2> QED  BY <2>1, <2>3 DEF Keys
<1>2. ASSUME NEW i \in Keys
      PROVE  i \in Known
  <2>1. PICK s \in WithMeta : i = IdOf[s] \/ i \in PartsOf[s]
    BY DEF Keys
  <2>2. s \in Sources
    BY DEF WithMeta
  <2>3. CASE i = IdOf[s]
    <3>1. resources[i] # None /\ i \in Ids
      BY <2>2, <2>3, DescribedIs
    <3> QED  BY <3>1 DEF Known, IInv, TypeOK
  <2>4. CASE i \in PartsOf[s]
    BY <2>1, <2>4 DEF InOrder
  <2> QED  BY <2>1, <2>3, <2>4
<1> QED  BY <1>1, <1>2

LEMMA OpenOrder == ASSUME IInv, OrderInv, Open PROVE OrderInv'
<1>1. /\ phase = "closed" /\ phase' = "populate" /\ todo' = WithMeta
      /\ UNCHANGED <<files, pmeta, podb, report, touched>>
  BY DEF Open, disk
<1>2. Known' = {} /\ WithMeta' \ todo' = {}
  <2>1. Known' = {}
    BY DEF Open, Known, Nothing
  <2> QED  BY <1>1, <2>1, SameDisk
<1>3. InOrder(WithMeta \ todo)'
  BY <1>2 DEF InOrder
<1>4. ~touched' /\ report' = {} => LeftInOrder'
  BY <1>1, SameDisk DEF OrderInv
<1> QED  BY <1>1, <1>2, <1>3, <1>4 DEF OrderInv

LEMMA PopulateOrder ==
  ASSUME UniqueComposites, IInv, OrderInv, NEW s \in Sources, Populate(s)
  PROVE  OrderInv'
<1> DEFINE V == WithMeta \ todo
<1>1. /\ phase = "populate" /\ phase' = "populate" /\ s \in todo /\ todo' = todo \ {s}
      /\ UNCHANGED <<files, pmeta, podb, report, touched>>
  BY DEF Populate, disk
<1>2. s \in WithMeta /\ WithMeta' = WithMeta /\ WithMeta' \ todo' = V \cup {s} /\ V \subseteq Sources
  <2>1. s \in WithMeta
    BY <1>1 DEF IInv, Copies
  <2>2. WithMeta' = WithMeta
    BY <1>1, SameDisk
  <2> QED  BY <1>1, <2>1, <2>2 DEF WithMeta
<1>3. ASSUME AllValid, NEW i \in Ids \cup {None}
      PROVE  resources'[i] = IF i \in PartsOf[s] \/ i = IdOf[s] THEN Described(s) ELSE resources[i]
  <2>1. pmeta[s] = Described(s)
    BY <1>2, <1>3, AllDescribed
  <2>2. pmeta[s].id = IdOf[s] /\ pmeta[s].source = s /\ s # None
    BY <2>1, DescribedIs, DatabaseAssumption
  <2> QED  BY <2>1, <2>2, <1>3 DEF Populate, IInv, TypeOK
<1>4. DOMAIN resources = Ids \cup {None} /\ DOMAIN resources' = Ids \cup {None}
  BY DEF Populate, IInv, TypeOK
<1>5. ASSUME AllValid
      PROVE  /\ Known \subseteq Known' /\ IdOf[s] \in Known' /\ PartsOf[s] \subseteq Known'
             /\ resources'[IdOf[s]] = Described(s)
  BY <1>3, <1>4, <1>5, DescribedIs DEF Known
<1>6. ASSUME AllValid
      PROVE  InOrder(WithMeta \ todo)'
  <2>1. InOrder(V)
    BY <1>1, <1>6 DEF OrderInv
  <2>2. ASSUME NEW i \in Known'
        PROVE  \E x \in V \cup {s} : /\ resources'[i] = Described(x)
                                     /\ i = IdOf[x] \/ i \in PartsOf[x]
    <3>1. i \in Ids \cup {None} /\ resources'[i] # None
      BY <1>4 DEF Known
    <3>2. CASE i \in PartsOf[s] \/ i = IdOf[s]
      BY <1>3, <1>6, <3>1, <3>2
    <3>3. CASE ~(i \in PartsOf[s] \/ i = IdOf[s])
      <4>1. resources'[i] = resources[i] /\ i \in Known
        BY <1>3, <1>4, <1>6, <3>1, <3>3 DEF Known
      <4> QED  BY <2>1, <4>1 DEF InOrder
    <3> QED  BY <3>2, <3>3
  <2>3. ASSUME NEW t \in V \cup {s}, PartsOf[t] # {}
        PROVE  resources'[IdOf[t]] = Described(t) /\ PartsOf[t] \subseteq Known'
    <3>1. CASE t = s
      BY <1>5, <1>6, <3>1
    <3>2. CASE t # s
      <4>1. t \in V /\ t \in Sources /\ IdOf[t] # IdOf[s] /\ IdOf[t] \notin PartsOf[s]
            /\ IdOf[t] \in Ids
        BY <1>2, <2>3, <3>2, DescribedIs DEF UniqueComposites
      <4>2. resources[IdOf[t]] = Described(t) /\ PartsOf[t] \subseteq Known
        BY <2>1, <2>3, <4>1 DEF InOrder
      <4> QED  BY <1>3, <1>5, <1>6, <4>1, <4>2
    <3> QED  BY <3>1, <3>2
  <2> QED  BY <1>2, <2>2, <2>3 DEF InOrder
<1>7. ASSUME ~touched, report = {}
      PROVE  /\ LeftInOrder
             /\ \A x \in V \cup {s} : resources'[IdOf[x]] = Described(x)
  <2>1. LeftInOrder /\ \A x \in V : resources[IdOf[x]] = Described(x)
    BY <1>1, <1>7 DEF OrderInv
  <2>2. AllValid
    BY <2>1 DEF LeftInOrder
  <2>3. ASSUME NEW x \in V, x # s
        PROVE  resources'[IdOf[x]] = Described(x)
    <3>1. IdOf[x] # IdOf[s] /\ x \in Sources
      BY <1>2, <2>1, <2>3 DEF LeftInOrder
    <3>2. IdOf[x] \in Ids /\ IdOf[x] \notin PartsOf[s]
      BY <3>1, DescribedIs
    <3> QED  BY <1>3, <2>1, <2>2, <3>1, <3>2
  <2> QED  BY <1>5, <2>1, <2>2, <2>3
<1> HIDE DEF V
<1>8. (AllValid' <=> AllValid) /\ (LeftInOrder' <=> LeftInOrder)
  BY <1>1, SameDisk
<1> QED  BY <1>1, <1>2, <1>6, <1>7, <1>8 DEF OrderInv

LEMMA TurnOrder == ASSUME IInv, OrderInv, Turn PROVE OrderInv'
<1>1. UNCHANGED <<files, pmeta, podb, resources>>
  BY DEF Turn, BeginMend, EndCreate, EndRepair, EndOpen, disk
<1>2. /\ WithMeta' = WithMeta /\ (AllValid' <=> AllValid)
      /\ \A s \in Sources : Faulty(s)' <=> Faulty(s)
      /\ InOrder(WithMeta)' <=> InOrder(WithMeta)
  <2>1. /\ WithMeta' = WithMeta /\ (AllValid' <=> AllValid)
        /\ \A s \in Sources : Faulty(s)' <=> Faulty(s)
    BY <1>1, SameDisk
  <2>2. Known' = Known
    BY <1>1 DEF Known
  <2> QED  BY <1>1, <2>1, <2>2 DEF InOrder
<1>3. ~AllValid => \E s \in WithMeta : Faulty(s)' /\ s \in Sources
  BY <1>2 DEF AllValid, Faulty
<1>4. CASE BeginMend
  <2>1. phase = "populate" /\ todo = {} /\ touched' = FALSE
    BY <1>4 DEF BeginMend
  <2>2. AllValid => InOrder(WithMeta)
    <3>1. WithMeta \ todo = WithMeta
      BY <2>1
    <3> QED  BY <2>1, <3>1 DEF OrderInv
  <2>3. "CorruptMetadata" \in report' <=> ~AllValid
    BY <1>4, ReportIs DEF BeginMend
  <2>4. \/ phase' = "create"
        \/ phase' = "repair" /\ todo' = WithMeta /\ "CorruptMetadata" \in report'
        \/ phase' = "save" /\ "CorruptMetadata" \notin report'
    BY <1>4 DEF BeginMend
  <2>5. CASE phase' = "create"
    BY <1>2, <2>2, <2>3, <2>5 DEF OrderInv
  <2>6. CASE phase' = "repair" /\ todo' = WithMeta /\ "CorruptMetadata" \in report'
    <3>1. \E s \in todo' : Faulty(s)'
      BY <1>3, <2>3, <2>6
    <3> QED  BY <2>6, <3>1 DEF OrderInv
  <2>7. CASE phase' = "save" /\ "CorruptMetadata" \notin report'
    BY <1>2, <2>2, <2>3, <2>7 DEF OrderInv
  <2> QED  BY <2>4, <2>5, <2>6, <2>7
<1>5. CASE EndCreate
  <2>1. /\ phase = "create"
        /\ AllValid => InOrder(WithMeta)
        /\ "CorruptMetadata" \in report => ~AllValid
        /\ "CorruptMetadata" \notin report => AllValid
    BY <1>5 DEF EndCreate, OrderInv, IInv, BadIsAhead, AllValid
  <2>2. CASE "CorruptMetadata" \in report
    <3>1. phase' = "repair" /\ todo' = WithMeta
      BY <1>5, <2>2 DEF EndCreate
    <3>2. \E s \in todo' : Faulty(s)'
      BY <1>3, <2>1, <2>2, <3>1
    <3> QED  BY <3>1, <3>2 DEF OrderInv
  <2>3. CASE "CorruptMetadata" \notin report
    <3>1. phase' = "save"
      BY <1>5, <2>3 DEF EndCreate
    <3> QED  BY <1>2, <2>1, <2>3, <3>1 DEF OrderInv
  <2> QED  BY <2>2, <2>3
<1>6. CASE EndRepair
  <2>1. phase = "repair" /\ todo = {} /\ phase' = "save" /\ touched' = touched
    BY <1>6 DEF EndRepair
  <2>2. touched
    BY <2>1 DEF OrderInv, IInv, TypeOK
  <2> QED  BY <2>1, <2>2 DEF OrderInv
<1>7. CASE EndOpen
  <2>1. phase = "save" /\ phase' = "open" /\ touched' = touched
    BY <1>7 DEF EndOpen
  <2> QED  BY <1>2, <2>1 DEF OrderInv
<1> QED  BY <1>4, <1>5, <1>6, <1>7 DEF Turn

LEMMA CreateMetadataOrder ==
  ASSUME IInv, OrderInv, NEW s \in Sources, CreateMetadata(s)
  PROVE  OrderInv'
<1>1. ~Accepts(resources, Undescribed(s))
  <2>1. ~Good(Undescribed(s))
    BY DEF Good, Undescribed
  <2> QED  BY <2>1, ValidIsGood, DescribedTyped DEF Accepts
<1>2. UNCHANGED <<files, pmeta, podb, phase, resources, report>> /\ phase = "create"
  BY <1>1 DEF CreateMetadata, AddedTo, Dumped
<1>3. WithMeta' = WithMeta /\ (AllValid' <=> AllValid)
  BY <1>2, SameDisk
<1>4. InOrder(WithMeta)' <=> InOrder(WithMeta)
  <2>1. Known' = Known
    BY <1>2 DEF Known
  <2> QED  BY <1>2, <1>3, <2>1 DEF InOrder
<1> QED  BY <1>2, <1>3, <1>4 DEF OrderInv

LEMMA RepairOrder ==
  ASSUME IInv, OrderInv, NEW s \in Sources, Repair(s)
  PROVE  OrderInv'
<1>1. phase = "repair" /\ phase' = "repair" /\ todo' = todo \ {s} /\ UNCHANGED <<files, podb>>
  BY DEF Repair
<1>2. CASE touched'
  BY <1>1, <1>2 DEF OrderInv
<1>3. CASE ~touched'
  <2>1. ~Faulty(s) /\ UNCHANGED <<pmeta, resources, touched>>
    BY <1>3 DEF Repair
  <2>2. PICK t \in todo : Faulty(t)
    BY <1>1, <1>3, <2>1 DEF OrderInv
  <2>3. t \in todo' /\ t \in Sources
    BY <1>1, <2>1, <2>2 DEF IInv, TypeOK
  <2>4. Faulty(t)'
    BY <1>1, <2>1, <2>2, <2>3, SameDisk
  <2> QED  BY <1>1, <2>3, <2>4 DEF OrderInv
<1> QED  BY <1>2, <1>3

LEMMA AddOrder ==
  ASSUME IInv, OrderInv, NEW s \in Sources, Add(s)
  PROVE  OrderInv'
<1>1. /\ phase = "open" /\ phase' = "open" /\ UNCHANGED <<files, podb>>
      /\ ~touched' => ~touched /\ PartsOf[s] = {}
      /\ resources' = AddedTo(resources, Described(s)) /\ pmeta' = Dumped(pmeta, resources, Described(s))
  BY DEF Add, IInv, TypeOK
<1> SUFFICES ASSUME ~touched' PROVE AllValid' /\ InOrder(WithMeta)'
  BY <1>1 DEF OrderInv
<1>2. ~touched /\ PartsOf[s] = {} /\ AllValid /\ InOrder(WithMeta)
  BY <1>1 DEF OrderInv
<1>3. CASE ~Accepts(resources, Described(s))
  <2>1. UNCHANGED <<files, pmeta, podb, resources>>
    BY <1>1, <1>3 DEF AddedTo, Dumped
  <2>2. WithMeta' = WithMeta /\ (AllValid' <=> AllValid) /\ Known' = Known
    BY <2>1, SameDisk DEF Known
  <2> QED  BY <1>2, <2>1, <2>2 DEF InOrder
<1>4. CASE Accepts(resources, Described(s))
  <2>1. /\ resources[IdOf[s]] = None /\ Valid(Described(s))
        /\ resources' = [resources EXCEPT ![IdOf[s]] = Described(s)]
        /\ pmeta' = [pmeta EXCEPT ![s] = Described(s)]
    BY <1>1, <1>4, DescribedIs DEF Accepts, AddedTo, Dumped
  <2>2. /\ pmeta'[s] = Described(s) /\ \A t \in Sources \ {s} : pmeta'[t] = pmeta[t]
        /\ WithMeta' = WithMeta \cup {s}
    BY <2>1, DescribedIs DEF IInv, TypeOK, WithMeta
  <2>3. AllValid'
    <3> SUFFICES ASSUME NEW t \in WithMeta' PROVE Valid(pmeta[t])'
      BY DEF AllValid, Faulty
    <3>1. \A m : Valid(m)' <=> Valid(m)
      BY <1>1 DEF Valid, ValidateMetadata
    <3>2. CASE t = s
      BY <2>1, <2>2, <3>1, <3>2
    <3>3. CASE t # s
      <4>1. t \in WithMeta /\ t \in Sources \ {s}
        BY <2>2, <3>3 DEF WithMeta
      <4>2. Valid(pmeta[t])
        BY <1>2, <4>1 DEF AllValid, Faulty
      <4> QED  BY <2>2, <3>1, <4>1, <4>2
    <3> QED  BY <3>2, <3>3
  <2>4. /\ IdOf[s] \in Ids /\ resources'[IdOf[s]] = Described(s)
        /\ \A i \in (Ids \cup {None}) \ {IdOf[s]} : resources'[i] = resources[i]
        /\ Known' = Known \cup {IdOf[s]} /\ IdOf[s] \notin Known
    BY <2>1, DescribedIs DEF IInv, TypeOK, Known
  <2>5. ASSUME NEW i \in Known'
        PROVE  \E x \in WithMeta' : /\ resources'[i] = Described(x)
                                    /\ i = IdOf[x] \/ i \in PartsOf[x]
    <3>1. CASE i = IdOf[s]
      BY <2>2, <2>4, <3>1
    <3>2. CASE i # IdOf[s]
      <4>1. i \in Known /\ resources'[i] = resources[i]
        BY <2>4, <3>2 DEF Known, IInv, TypeOK
      <4>2. PICK x \in WithMeta : resources[i] = Described(x) /\ (i = IdOf[x] \/ i \in PartsOf[x])
        BY <1>2, <4>1 DEF InOrder
      <4> QED  BY <2>2, <4>1, <4>2
    <3> QED  BY <3>1, <3>2
  <2>6. ASSUME NEW t \in WithMeta', PartsOf[t] # {}
        PROVE  resources'[IdOf[t]] = Described(t) /\ PartsOf[t] \subseteq Known'
    <3>1. t \in WithMeta /\ t \in Sources
      BY <1>2, <2>2, <2>6 DEF WithMeta
    <3>2. resources[IdOf[t]] = Described(t) /\ PartsOf[t] \subseteq Known
      BY <1>2, <2>6, <3>1 DEF InOrder
    <3>3. IdOf[t] # IdOf[s] /\ IdOf[t] \in Ids
      BY <2>1, <3>1, <3>2, DescribedIs
    <3> QED  BY <2>4, <3>2, <3>3
  <2> QED  BY <2>3, <2>5, <2>6 DEF InOrder
<1> QED  BY <1>3, <1>4

LEMMA RemoveOrder ==
  ASSUME IInv, OrderInv, NEW i \in Ids, Remove(i)
  PROVE  OrderInv'
<1>1. /\ phase = "open" /\ phase' = "open" /\ UNCHANGED <<files, podb>> /\ i \in Known
      /\ ~touched' => ~touched /\ PartsOf[resources[i].source] = {}
      /\ resources' = Erased(i) /\ pmeta' = Unlinked(i)
  BY DEF Remove, IInv, TypeOK
<1> SUFFICES ASSUME ~touched' PROVE AllValid' /\ InOrder(WithMeta)'
  BY <1>1 DEF OrderInv
<1>2. ~touched /\ PartsOf[resources[i].source] = {} /\ AllValid /\ InOrder(WithMeta)
  BY <1>1 DEF OrderInv
<1>3. PICK r \in WithMeta : resources[i] = Described(r) /\ (i = IdOf[r] \/ i \in PartsOf[r])
  BY <1>1, <1>2 DEF InOrder
<1>4. r \in Sources /\ r # None /\ resources[i].source = r /\ PartsOf[r] = {} /\ i = IdOf[r]
  <2>1. r \in Sources
    BY DEF WithMeta
  <2>2. resources[i].source = r
    BY <1>3, <2>1, DescribedIs
  <2> QED  BY <1>2, <1>3, <2>1, <2>2, DatabaseAssumption
<1>5. /\ pmeta' = [pmeta EXCEPT ![r] = None] /\ WithMeta' = WithMeta \ {r}
      /\ \A t \in Sources \ {r} : pmeta'[t] = pmeta[t]
  BY <1>1, <1>4 DEF Unlinked, IInv, TypeOK, WithMeta
<1>6. /\ Known' = Known \ {i}
      /\ \A j \in (Ids \cup {None}) \ {i} : resources'[j] = resources[j]
  BY <1>1 DEF Erased, Known, IInv, TypeOK
<1>7. AllValid'
  <2> SUFFICES ASSUME NEW t \in WithMeta' PROVE Valid(pmeta[t])'
    BY DEF AllValid, Faulty
  <2>1. \A m : Valid(m)' <=> Valid(m)
    BY <1>1 DEF Valid, ValidateMetadata
  <2>2. t \in WithMeta /\ t \in Sources \ {r}
    BY <1>5 DEF WithMeta
  <2>3. Valid(pmeta[t])
    BY <1>2, <2>2 DEF AllValid, Faulty
  <2> QED  BY <1>5, <2>1, <2>2, <2>3
<1>8. ASSUME NEW j \in Known'
      PROVE  \E x \in WithMeta' : /\ resources'[j] = Described(x)
                                  /\ j = IdOf[x] \/ j \in PartsOf[x]
  <2>1. j \in Known /\ j # i /\ resources'[j] = resources[j]
    BY <1>6 DEF Known, IInv, TypeOK
  <2>2. PICK x \in WithMeta : resources[j] = Described(x) /\ (j = IdOf[x] \/ j \in PartsOf[x])
    BY <1>2, <2>1 DEF InOrder
  <2>3. x # r
    BY <1>4, <2>1, <2>2
  <2> QED  BY <1>5, <2>1, <2>2, <2>3
<1>9. ASSUME NEW t \in WithMeta', PartsOf[t] # {}
      PROVE  resources'[IdOf[t]] = Described(t) /\ PartsOf[t] \subseteq Known'
  <2>1. t \in WithMeta /\ t \in Sources /\ t # r
    BY <1>5 DEF WithMeta
  <2>2. resources[IdOf[t]] = Described(t) /\ PartsOf[t] \subseteq Known
    BY <1>2, <1>9, <2>1 DEF InOrder
  <2>3. IdOf[t] # i /\ IdOf[t] \in Ids
    BY <1>3, <1>4, <2>1, <2>2, DescribedIs
  <2>4. i \notin PartsOf[t]
    BY <1>4, <2>1, DescribedIs
  <2> QED  BY <1>6, <2>2, <2>3, <2>4
<1> QED  BY <1>7, <1>8, <1>9 DEF InOrder

\* A session that ends with nothing to report leaves one .pmeta per file, and the number
\* of the ids that the next constructor will find.
LEMMA CloseOrder == ASSUME IInv, OrderInv, Close PROVE OrderInv'
<1>1. /\ phase = "open" /\ phase' = "closed" /\ UNCHANGED <<files, pmeta, touched>>
      /\ podb' = [podb EXCEPT !.count = Cardinality(Known)] /\ report' = Validate(podb')
  BY DEF Close
<1> SUFFICES ASSUME ~touched', report' = {} PROVE LeftInOrder'
  BY <1>1 DEF OrderInv
<1>2. AllValid /\ InOrder(WithMeta) /\ Unowned = {}
  BY <1>1, ReportIs DEF OrderInv
<1>3. podb'.names = podb.names /\ podb'.count = Cardinality(Known)
  BY <1>1 DEF IInv, TypeOK
<1>4. WithMeta' = WithMeta /\ Keys' = Keys /\ (AllValid' <=> AllValid)
  <2>1. WithMeta' = WithMeta
    BY <1>1 DEF WithMeta
  <2>2. \A m : Valid(m)' <=> Valid(m)
    BY <1>1, <1>3 DEF Valid, ValidateMetadata
  <2> QED  BY <1>1, <2>1, <2>2 DEF Keys, AllValid, Faulty
<1>5. ASSUME NEW s \in files
      PROVE  s \in WithMeta /\ resources[IdOf[s]] = Described(s)
  <2>1. s \in Sources
    BY DEF IInv, TypeOK
  <2>2. PICK i \in Known : resources[i].source = s
    BY <1>2 DEF Unowned
  <2>3. PICK r \in WithMeta : resources[i] = Described(r) /\ (i = IdOf[r] \/ i \in PartsOf[r])
    BY <1>2, <2>2 DEF InOrder
  <2>4. r = s
    <3>1. r \in Sources
      BY DEF WithMeta
    <3> QED  BY <2>2, <2>3, <3>1, DescribedIs
  <2>5. CASE i = IdOf[s]
    BY <2>3, <2>4, <2>5
  <2>6. CASE i \in PartsOf[s]
    BY <1>2, <2>4, <2>6 DEF InOrder
  <2> QED  BY <2>3, <2>4, <2>5, <2>6
<1>6. ASSUME NEW s \in WithMeta
      PROVE  s \in Sources /\ resources[IdOf[s]] = Described(s)
  BY <1>2, <1>5, AllDescribed
<1>7. \A s, t \in WithMeta : IdOf[s] = IdOf[t] => s = t
  <2> SUFFICES ASSUME NEW s \in WithMeta, NEW t \in WithMeta, IdOf[s] = IdOf[t] PROVE s = t
    OBVIOUS
  <2>1. s \in Sources /\ t \in Sources /\ Described(s) = Described(t)
    BY <1>6
  <2> QED  BY <2>1, DescribedIs
<1>8. Known = Keys
  BY <1>2, <1>6, TableKeys
<1> QED  BY <1>1, <1>2, <1>3, <1>4, <1>5, <1>7, <1>8 DEF LeftInOrder

LEMMA OrderStep ==
  ASSUME UniqueComposites, IInv, OrderInv, [Next]_vars
  PROVE  OrderInv'
<1>1. CASE Open
  BY <1>1, OpenOrder
<1>2. CASE BeginMend \/ EndCreate \/ EndRepair \/ EndOpen
  BY <1>2, TurnOrder DEF Turn
<1>3. CASE Close
  BY <1>3, CloseOrder
<1>4. CASE \E s \in Sources : Populate(s) \/ CreateMetadata(s) \/ Repair(s) \/ Add(s)
  BY <1>4, PopulateOrder, CreateMetadataOrder, RepairOrder, AddOrder
<1>5. CASE \E i \in Ids : Remove(i)
  BY <1>5, RemoveOrder
<1>6. CASE \/ DieIdle \/ DieSaving \/ \E s \in Sources : DieWriting(s)
           \/ \E s \in Sources : CreateFile(s) \/ DeleteFile(s) \/ DeleteMetadata(s) \/ ClearName(s)
           \/ \E s, t \in Sources : s # t /\ ChangeId(s, t)
  <2>1. touched' /\ phase' \in {"closed", "open"}
    BY <1>6 DEF DieIdle, DieSaving, DieWriting, Die, CreateFile, DeleteFile, DeleteMetadata,
                ClearName, ChangeId, Outside
  <2> QED  BY <2>1 DEF OrderInv
<1>7. CASE UNCHANGED vars
  <2>1. UNCHANGED <<files, pmeta, podb, phase, todo, resources, report, touched>>
    BY <1>7 DEF vars, disk
  <2>2. /\ WithMeta' = WithMeta /\ (AllValid' <=> AllValid) /\ (LeftInOrder' <=> LeftInOrder)
        /\ \A s \in Sources : Faulty(s)' <=> Faulty(s)
    BY <2>1, SameDisk
  <2>3. Known' = Known
    BY <2>1 DEF Known
  <2>4. /\ InOrder(WithMeta)' <=> InOrder(WithMeta)
        /\ InOrder(WithMeta \ todo)' <=> InOrder(WithMeta \ todo)
    BY <2>1, <2>2, <2>3 DEF InOrder
  <2>5. todo \subseteq Sources
    BY DEF IInv, TypeOK
  <2> QED  BY <2>1, <2>2, <2>4, <2>5 DEF OrderInv
<1> QED  BY <1>1, <1>2, <1>3, <1>4, <1>5, <1>6, <1>7 DEF Next

----------------------------------------------------------------------------
(* The theorems *)

(* The inductive invariant: through every session, crash and change of the *)
(* user, the .pmeta of an acknowledged file is the only claim to its id,   *)
(* and the constructor works towards a table without a bad entry.          *)
THEOREM InductiveInvariant == Spec => []IInv
<1>1. Init => IInv
  BY InitIInv
<1>2. IInv /\ [Next]_vars => IInv'
  BY NextIInv
<1> QED  BY <1>1, <1>2, PTL DEF Spec

(* Files, tables, reports and the marks of the history keep their types.   *)
THEOREM TypeCorrect == Spec => []TypeOK
<1>1. IInv => TypeOK
  BY DEF IInv
<1> QED  BY <1>1, InductiveInvariant, PTL

(* FolderResourceDatabase never loses what add accepted: not in a crash,   *)
(* not in the repair of other files, and not in a later session.           *)
THEOREM AddedIsDurable == Spec => []Durable
<1>1. IInv => Durable
  <2> SUFFICES ASSUME IInv, phase = "open", NEW s \in acked
               PROVE  /\ resources[IdOf[s]] # None /\ resources[IdOf[s]].source = s
                      /\ s \in WithMeta /\ Valid(pmeta[s])
    BY DEF Durable
  <2>1. resources[IdOf[s]] # None /\ resources[IdOf[s]].source = s /\ pmeta[s].named
    BY DEF IInv, AckedKnown
  <2>2. s \in WithMeta /\ pmeta[s] \in Metadata /\ Good(pmeta[s])
    BY <2>1 DEF IInv, TypeOK, Claims, WithMeta, Good
  <2> QED  BY <2>1, <2>2, ValidIsGood
<1> QED  BY <1>1, InductiveInvariant, PTL

(* When the constructor of FolderResourceDatabase returns, what find       *)
(* answers for a file with metadata passes validate_metadata.              *)
THEOREM MendedIsAlwaysValid == Spec => MendedIsValid
<1>1. IInv /\ [Next]_vars
        => [phase # "open" /\ phase' = "open" => \A i \in Known' : IsPart(i) \/ Valid(resources[i])]_vars
  <2> SUFFICES ASSUME IInv, Next, phase # "open", phase' = "open"
               PROVE  \A i \in Known' : IsPart(i) \/ Valid(resources[i])
    OBVIOUS
  <2>1. EndOpen
    BY DEF Next, Open, BeginMend, EndCreate, EndRepair, Close, Populate, CreateMetadata,
           Repair, Add, Remove, DieIdle, DieSaving, DieWriting, Die, CreateFile, DeleteFile,
           DeleteMetadata, ClearName, ChangeId, Outside
  <2>2. phase = "save" /\ Known' = Known
    BY <2>1 DEF EndOpen, Known
  <2> QED  BY <2>2 DEF IInv, BadIsAhead
<1> QED  BY <1>1, InductiveInvariant, PTL DEF Spec, MendedIsValid

(* Sessions in a folder that nobody else touches stay in order: the files  *)
(* are read in any order, and what the table is made of does not depend on *)
(* it, as long as no composite shares its id with another file.            *)
THEOREM OrderIsKept ==
  ASSUME UniqueComposites
  PROVE  Spec => []OrderInv
<1>1. Init => OrderInv
  BY DEF Init, OrderInv
<1>2. IInv /\ OrderInv /\ [Next]_vars => OrderInv'
  BY OrderStep
<1> QED  BY <1>1, <1>2, InductiveInvariant, PTL DEF Spec

(* What the destructor of FolderResourceDatabase reports to be in order is *)
(* in order for the next constructor.                                      *)
THEOREM UntouchedReopensClean ==
  ASSUME UniqueComposites
  PROVE  Spec => CleanReopen
<1>1. IInv /\ OrderInv /\ [Next]_vars => [BeginMend /\ ~touched /\ report = {} => report' = {}]_vars
  <2> SUFFICES ASSUME IInv, OrderInv, BeginMend, ~touched, report = {}
               PROVE  Validate(podb) = {}
    BY DEF BeginMend
  <2>1. phase = "populate" /\ WithMeta \ todo = WithMeta
    BY DEF BeginMend
  <2>2. LeftInOrder /\ \A s \in WithMeta : resources[IdOf[s]] = Described(s)
    BY <2>1 DEF OrderInv
  <2>3. AllValid /\ InOrder(WithMeta)
    BY <2>1, <2>2 DEF LeftInOrder, OrderInv
  <2>4. Known = Keys
    BY <2>2, <2>3, TableKeys
  <2>5. "NotFound" \notin Validate(podb)
    BY <2>2, <2>4, ReportIs DEF LeftInOrder
  <2>6. "CorruptMetadata" \notin Validate(podb)
    BY <2>3, ReportIs
  <2>7. "StaleMetadata" \notin Validate(podb)
    <3> SUFFICES ASSUME NEW i \in Known PROVE resources[i].source \in files
      BY ReportIs
    <3>1. PICK s \in WithMeta : resources[i] = Described(s)
      BY <2>3 DEF InOrder
    <3>2. s \in Sources /\ s \in files
      BY <2>3, AllDescribed
    <3> QED  BY <3>1, <3>2, DescribedIs
  <2>8. "MissingMetadata" \notin Validate(podb)
    <3> SUFFICES ASSUME NEW s \in files PROVE \E i \in Known : resources[i].source = s
      BY ReportIs DEF Unowned
    <3>1. s \in WithMeta /\ s \in Sources
      BY <2>2 DEF LeftInOrder, WithMeta
    <3>2. IdOf[s] \in Keys
      BY <3>1, DescribedIs DEF Keys
    <3> QED  BY <2>2, <2>4, <3>1, <3>2, DescribedIs
  <2> QED  BY <2>5, <2>6, <2>7, <2>8, ReportIs
<1> QED  BY <1>1, InductiveInvariant, OrderIsKept, PTL DEF Spec, CleanReopen
=============================================================================
