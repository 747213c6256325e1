------------------------- MODULE SettingsEditorProofs -------------------------
(***************************************************************************)
(* Proofs about SettingsEditor, for any rows, parameters, values, files    *)
(* and number of edits: types, marks, what "saved" means, and the order of *)
(* the pairs in the file and in the running configuration.                 *)
(***************************************************************************)
EXTENDS SettingsEditor, TLAPS

-----------------------------------------------------------------------------
(* The helpers *)

LEMMA Evens ==
    /\ Stored \subseteq Typed /\ Stored \subseteq Nat
    /\ \A v \in Typed : Narrow(v) \in Stored /\ v <= Narrow(v)
    /\ \A v \in Typed, w \in Stored : v < w => Narrow(v) <= w
<1>1. Stored \subseteq Typed /\ Stored \subseteq Nat
  BY BoundsAssumption DEF Stored, Typed
<1>2. ASSUME NEW v \in Typed PROVE Narrow(v) \in Stored /\ v <= Narrow(v)
  <2>1. v \in Nat /\ v <= Top
    BY BoundsAssumption DEF Typed
  <2>2. Narrow(v) = v \/ Narrow(v) = v + 1
    BY <2>1 DEF Narrow
  <2>3. Narrow(v) % 2 = 0 /\ Narrow(v) \in Nat
    BY <2>1 DEF Narrow
  <2>4. Narrow(v) <= Top
    BY <2>1, <2>2, <2>3, BoundsAssumption
  <2>. QED BY <2>1, <2>2, <2>3, <2>4, BoundsAssumption DEF Stored, Typed
<1>3. ASSUME NEW v \in Typed, NEW w \in Stored, v < w PROVE Narrow(v) <= w
  <2>1. v \in Nat /\ w \in Nat /\ w % 2 = 0
    BY BoundsAssumption DEF Typed, Stored
  <2>2. Narrow(v) = v \/ Narrow(v) = v + 1
    BY <2>1 DEF Narrow
  <2>. QED BY <1>3, <2>1, <2>2
<1>. QED BY <1>1, <1>2, <1>3

\* What a row is read as.
LEMMA RowsAreRead ==
    ASSUME NEW c \in Config
    PROVE  /\ \A row \in Rows : Read(c, row) \in Pair \union {None} /\ Effective(c, row) \in Pair
           /\ Read(c, Default) = c.default /\ Effective(c, Default) = c.default
           /\ \A s \in Scopes :
                  /\ c.override[s] # None => Read(c, s) = c.override[s]
                  /\ c.override[s] = None => Read(c, s) = c.legacy
           /\ \A row \in Rows : /\ Read(c, row) # None => Effective(c, row) = Read(c, row)
                                /\ Read(c, row) = None => Effective(c, row) = c.default
<1>1. /\ c.default \in Pair /\ c.legacy \in Pair \union {None}
      /\ \A s \in Scopes : c.override[s] \in Pair \union {None}
  BY DEF Config
<1>2. c.default # None
  BY <1>1, NoneAssumption
<1>3. \A s \in Scopes : s # Default
  BY FieldsAssumption
<1>. QED BY <1>1, <1>2, <1>3 DEF Read, Effective, Rows

\* The lines of a file are told apart.
LEMMA KeysAre ==
    /\ Sidefile \in Keys /\ Params \subseteq Keys /\ Sidefile \notin Params
    /\ \A table \in Tables, b \in Bounds : /\ <<table, b>> \in Keys /\ <<table, b>> # Sidefile
                                          /\ <<table, b>> \notin Params
                                          /\ <<table, b>> \in Tables \X Bounds
    /\ Default \in Tables /\ Legacy \in Tables /\ Scopes \subseteq Tables
    /\ Rows \subseteq Tables /\ Legacy \notin Rows /\ Default \notin Scopes
    /\ \A table \in Tables : table = Default \/ table = Legacy \/ table \in Scopes
  BY FieldsAssumption DEF Keys, Tables, Rows

\* What a configuration says of a line.
LEMMA LinesAre ==
    ASSUME NEW c \in Config
    PROVE  /\ LineOf(c, Sidefile) = c.sidefile /\ c.sidefile \in Values
           /\ \A q \in Params : LineOf(c, q) = c.param[q] /\ c.param[q] \in Values
           /\ \A table \in Tables :
                  /\ PairOf(c, table) \in Pair \union {None}
                  /\ \A b \in Bounds :
                         /\ PairOf(c, table) = None => LineOf(c, <<table, b>>) = None
                         /\ PairOf(c, table) # None =>
                                /\ LineOf(c, <<table, b>>) = PairOf(c, table)[b]
                                /\ LineOf(c, <<table, b>>) \in Stored
           /\ PairOf(c, Default) = c.default /\ PairOf(c, Legacy) = c.legacy
           /\ \A s \in Scopes : PairOf(c, s) = c.override[s]
<1>1. LineOf(c, Sidefile) = c.sidefile /\ c.sidefile \in Values
  BY DEF LineOf, Config
<1>2. \A q \in Params : LineOf(c, q) = c.param[q] /\ c.param[q] \in Values
  BY KeysAre DEF LineOf, Config
<1>3. /\ c.default \in Pair /\ c.legacy \in Pair \union {None}
      /\ \A s \in Scopes : c.override[s] \in Pair \union {None}
  BY DEF Config
<1>4. /\ PairOf(c, Default) = c.default /\ PairOf(c, Legacy) = c.legacy
      /\ \A s \in Scopes : PairOf(c, s) = c.override[s]
  BY KeysAre DEF PairOf, Rows
<1>5. \A table \in Tables : PairOf(c, table) \in Pair \union {None}
  BY <1>3, <1>4, KeysAre
<1>6. ASSUME NEW table \in Tables, NEW b \in Bounds
      PROVE  /\ PairOf(c, table) = None => LineOf(c, <<table, b>>) = None
             /\ PairOf(c, table) # None => /\ LineOf(c, <<table, b>>) = PairOf(c, table)[b]
                                           /\ LineOf(c, <<table, b>>) \in Stored
  <2>1. LineOf(c, <<table, b>>) = IF PairOf(c, table) = None THEN None ELSE PairOf(c, table)[b]
    BY KeysAre DEF LineOf
  <2>2. PairOf(c, table) # None => PairOf(c, table)[b] \in Stored
    BY <1>5 DEF Pair, Bounds
  <2>. QED BY <2>1, <2>2
<1>. QED BY <1>1, <1>2, <1>4, <1>5, <1>6

LEMMA NumbersAreNoNone == None \notin Stored /\ None \notin Values
<1>1. None \notin Nat
  BY NoneAssumption
<1>2. 0 \in Nat /\ 1 \in Nat
  OBVIOUS
<1>. QED BY <1>1, <1>2, Evens DEF Values

\* What is loaded of a file, line by line.
LEMMA LineTypes ==
    ASSUME NEW f \in File \union {NoFile, Garbled}
    PROVE  /\ Line(f, Sidefile) \in Values
           /\ \A q \in Params : Line(f, q) \in Values
           /\ \A table \in Tables, b \in Bounds : Line(f, <<table, b>>) \in Stored \union {None}
           /\ \A b \in Bounds : Line(f, <<Default, b>>) \in Stored
<1>1. Base \in Config /\ PairOf(Base, Default) # None
  BY FilesAssumption, LinesAre, NoneAssumption DEF Config
<1>2. /\ LineOf(Base, Sidefile) \in Values
      /\ \A q \in Params : LineOf(Base, q) \in Values
      /\ \A table \in Tables, b \in Bounds : LineOf(Base, <<table, b>>) \in Stored \union {None}
      /\ \A b \in Bounds : LineOf(Base, <<Default, b>>) \in Stored
  BY <1>1, LinesAre, KeysAre
<1>3. CASE f \in {NoFile, Garbled}
  BY <1>2, <1>3 DEF Line
<1>4. CASE f \notin {NoFile, Garbled}
  <2>1. /\ f[Sidefile] \in Values \union {None}
        /\ \A q \in Params : f[q] \in Values \union {None}
        /\ \A table \in Tables, b \in Bounds : f[<<table, b>>] \in Stored \union {None}
    BY <1>4, KeysAre DEF File
  <2>2. \A k : Line(f, k) = Over(f[k], LineOf(Base, k))
    BY <1>4 DEF Line
  <2>. QED BY <1>2, <2>1, <2>2, KeysAre DEF Over
<1>. QED BY <1>3, <1>4

LEMMA PairTypes ==
    ASSUME NEW f \in File \union {NoFile, Garbled}
    PROVE  /\ \A table \in Tables : PairIn(f, table) \in Pair \union {None}
           /\ PairIn(f, Default) \in Pair
           /\ \A table \in Tables : PairIn(f, table) # None =>
                  \A b \in Bounds : PairIn(f, table)[b] = Line(f, <<table, b>>)
           /\ \A table \in Tables :
                  PairIn(f, table) = None <=> \E b \in Bounds : Line(f, <<table, b>>) = None
<1>1. ASSUME NEW table \in Tables, \A b \in Bounds : Line(f, <<table, b>>) # None
      PROVE  /\ PairIn(f, table) \in Pair /\ PairIn(f, table) # None
             /\ \A b \in Bounds : PairIn(f, table)[b] = Line(f, <<table, b>>)
  <2>1. PairIn(f, table) = [warning |-> Line(f, <<table, "warning">>),
                            critical |-> Line(f, <<table, "critical">>)]
    BY <1>1 DEF PairIn
  <2>2. \A b \in Bounds : Line(f, <<table, b>>) \in Stored
    BY <1>1, LineTypes
  <2>3. PairIn(f, table) \in Pair /\ \A b \in Bounds : PairIn(f, table)[b] = Line(f, <<table, b>>)
    BY <2>1, <2>2 DEF Pair, Bounds
  <2>. QED BY <2>3, NoneAssumption
<1>2. ASSUME NEW table \in Tables, \E b \in Bounds : Line(f, <<table, b>>) = None
      PROVE  PairIn(f, table) = None
  BY <1>2 DEF PairIn
<1>3. PairIn(f, Default) \in Pair
  <2>1. \A b \in Bounds : Line(f, <<Default, b>>) # None
    BY LineTypes, NumbersAreNoNone
  <2>. QED BY <1>1, <2>1, KeysAre
<1>. QED BY <1>1, <1>2, <1>3

\* Files with the same lines of a table load the same pair.
LEMMA SamePair ==
    ASSUME NEW f, NEW g, NEW table, \A b \in Bounds : Line(f, <<table, b>>) = Line(g, <<table, b>>)
    PROVE  PairIn(f, table) = PairIn(g, table)
  BY DEF PairIn, Bounds

LEMMA LoadedIsTyped ==
    ASSUME NEW f \in File \union {NoFile, Garbled}
    PROVE  /\ Loaded(f) \in Config
           /\ \A table \in Tables : PairOf(Loaded(f), table) = PairIn(f, table)
           /\ Loaded(f).legacy = PairIn(f, Legacy)
           /\ Loaded(f).sidefile = Line(f, Sidefile)
           /\ \A q \in Params : Loaded(f).param[q] = Line(f, q)
<1>1. /\ Loaded(f).default = PairIn(f, Default) /\ Loaded(f).legacy = PairIn(f, Legacy)
      /\ Loaded(f).override = [s \in Scopes |-> PairIn(f, s)]
      /\ Loaded(f).sidefile = Line(f, Sidefile)
      /\ Loaded(f).param = [q \in Params |-> Line(f, q)]
      /\ Loaded(f) = [default |-> Loaded(f).default, override |-> Loaded(f).override,
                      legacy |-> Loaded(f).legacy, sidefile |-> Loaded(f).sidefile,
                      param |-> Loaded(f).param]
  BY DEF Loaded
<1>2. /\ Loaded(f).default \in Pair /\ Loaded(f).legacy \in Pair \union {None}
      /\ Loaded(f).override \in [Scopes -> Pair \union {None}]
      /\ Loaded(f).sidefile \in Values /\ Loaded(f).param \in [Params -> Values]
  BY <1>1, PairTypes, LineTypes, KeysAre
<1>3. Loaded(f) \in Config
  BY <1>1, <1>2 DEF Config
<1>4. \A table \in Tables : PairOf(Loaded(f), table) = PairIn(f, table)
  BY <1>1, <1>3, LinesAre, KeysAre
<1>. QED BY <1>1, <1>3, <1>4

\* An ordered pair is one whose warning is not above its critical value.
LEMMA OrderedIsNotAbove ==
    ASSUME NEW pair \in Pair, Ordered(pair)
    PROVE  pair.warning <= pair.critical
<1>1. pair.warning \in Nat /\ pair.critical \in Nat
  BY Evens DEF Pair
<1>. QED BY <1>1 DEF Ordered

LEMMA StartedIsTyped ==
    ASSUME NEW f \in File \union {NoFile, Garbled}, NEW requests \in SUBSET Safety
    PROVE  /\ Started(f, requests) \in Config
           /\ \A table \in Tables : PairOf(Started(f, requests), table) = PairIn(f, table)
           /\ Started(f, requests).legacy = PairIn(f, Legacy)
           /\ \A q \in Params : Started(f, requests).param[q] =
                  IF q \in requests THEN 0 ELSE Loaded(f).param[q]
<1>1. Loaded(f) \in Config
  BY LoadedIsTyped
<1>2. Started(f, requests) =
        [Loaded(f) EXCEPT !.param = [q \in Params |-> IF q \in requests THEN 0 ELSE Loaded(f).param[q]]]
  BY DEF Started
<1>3. [q \in Params |-> IF q \in requests THEN 0 ELSE Loaded(f).param[q]] \in [Params -> Values]
  BY <1>1 DEF Config, Values
<1>4. /\ Started(f, requests) \in Config
      /\ Started(f, requests).default = Loaded(f).default
      /\ Started(f, requests).override = Loaded(f).override
      /\ Started(f, requests).legacy = Loaded(f).legacy
      /\ \A q \in Params : Started(f, requests).param[q] =
             IF q \in requests THEN 0 ELSE Loaded(f).param[q]
  BY <1>1, <1>2, <1>3 DEF Config
<1>5. \A table : PairOf(Started(f, requests), table) = PairOf(Loaded(f), table)
  BY <1>4 DEF PairOf
<1>. QED BY <1>4, <1>5, LoadedIsTyped

-----------------------------------------------------------------------------
(* The inductive invariant *)

\* Edits neither make nor clear a legacy override, and a scaffolded file drops
\* none: what runs has one only if the file had one.
LegacyIsFromFile ==
    /\ file = NoFile => config.legacy = None
    /\ file \in File /\ config.legacy = None => \A b \in Bounds : file[<<Legacy, b>>] = None

SettingsInv ==
    /\ TypeOK
    /\ LegacyIsFromFile
    /\ UnsavedIsMarked
    /\ SavedIsLoadedAgain
    /\ FilePairsOrdered
    /\ WarningNeverAboveCritical

\* A program that starts from a file that loads runs what the file says, but for
\* --set; of the tables a write stopped in nothing is known.
StartedFrom(f, c, requests, unsaved, tables, rows) ==
    /\ f \in File \union {NoFile} /\ Loads(f) /\ requests \in SUBSET Safety
    /\ \A table \in Tables \ tables : OrderedIn(f, table)
    /\ c = Started(f, requests)
    /\ unsaved = {q \in requests : Loaded(f).param[q] # 0}
    /\ rows = tables \intersect Rows

LEMMA LegacyAtTheStart ==
    ASSUME NEW f, NEW c, NEW requests, NEW unsaved, NEW tables, NEW rows,
           StartedFrom(f, c, requests, unsaved, tables, rows)
    PROVE  /\ f = NoFile => c.legacy = None
           /\ f \in File /\ c.legacy = None => \A b \in Bounds : f[<<Legacy, b>>] = None
<1>1. f \in File \union {NoFile, Garbled} /\ Loads(f) /\ c.legacy = PairIn(f, Legacy)
  BY StartedIsTyped DEF StartedFrom
<1>2. \A b \in Bounds : LineOf(Base, <<Legacy, b>>) = None
  BY FilesAssumption, LinesAre, KeysAre
<1>3. ASSUME f = NoFile PROVE c.legacy = None
  <2>1. Line(f, <<Legacy, "warning">>) = None
    BY <1>2, <1>3 DEF Line, Bounds
  <2>. QED BY <1>1, <2>1, PairTypes, KeysAre DEF Bounds
<1>4. ASSUME f \in File, c.legacy = None PROVE \A b \in Bounds : f[<<Legacy, b>>] = None
  <2>1. \E b \in Bounds : Line(f, <<Legacy, b>>) = None
    BY <1>1, <1>4, PairTypes, KeysAre
  <2>2. \A b \in Bounds : Line(f, <<Legacy, b>>) = None
    <3>1. ~HalfWritten(f, Legacy)
      BY <1>1, KeysAre DEF Loads
    <3>. QED BY <2>1, <3>1 DEF HalfWritten, Bounds
  <2>3. f \notin {NoFile, Garbled}
    BY <1>4, NoneAssumption
  <2>. QED BY <2>2, <2>3 DEF Line, Over
<1>. QED BY <1>3, <1>4

LEMMA MarksAtTheStart ==
    ASSUME NEW f, NEW c, NEW requests, NEW unsaved, NEW tables, NEW rows,
           StartedFrom(f, c, requests, unsaved, tables, rows)
    PROVE  /\ c \in Config /\ unsaved \subseteq Params
           /\ \A q \in Params : c.param[q] # Loaded(f).param[q] => q \in unsaved
<1>1. c \in Config /\ unsaved \subseteq Params
  BY StartedIsTyped, FieldsAssumption DEF StartedFrom
<1>2. ASSUME NEW q \in Params, c.param[q] # Loaded(f).param[q] PROVE q \in unsaved
  <2>1. q \in requests /\ c.param[q] = 0
    BY <1>2, StartedIsTyped DEF StartedFrom
  <2>. QED BY <1>2, <2>1 DEF StartedFrom
<1>. QED BY <1>1, <1>2

LEMMA PairsAtTheStart ==
    ASSUME NEW f, NEW c, NEW requests, NEW unsaved, NEW tables, NEW rows,
           StartedFrom(f, c, requests, unsaved, tables, rows)
    PROVE  \A row \in Rows \ rows :
               PairOf(c, row) # None => PairOf(c, row).warning <= PairOf(c, row).critical
<1>1. SUFFICES ASSUME NEW row \in Rows \ rows, PairOf(c, row) # None
               PROVE  PairOf(c, row).warning <= PairOf(c, row).critical
  OBVIOUS
<1>2. row \in Tables \ tables
  BY KeysAre DEF StartedFrom
<1>3. PairOf(c, row) = PairIn(f, row) /\ PairIn(f, row) \in Pair \union {None}
  BY <1>2, StartedIsTyped, PairTypes DEF StartedFrom
<1>4. Ordered(PairIn(f, row))
  BY <1>1, <1>2, <1>3 DEF StartedFrom, OrderedIn
<1>. QED BY <1>1, <1>3, <1>4, OrderedIsNotAbove

LEMMA SettingsInvInit == Init => SettingsInv
<1>. SUFFICES ASSUME Init PROVE SettingsInv
  OBVIOUS
<1>1. PICK requests \in SUBSET Safety :
          /\ config = Started(file, requests)
          /\ unmarked = {q \in requests : Loaded(file).param[q] # 0}
  BY DEF Init
<1>2. StartedFrom(file, config, requests, unmarked, torn, spoiled)
  BY <1>1, FilesAssumption, OrderedAssumption DEF Init, StartedFrom
<1>3. config \in Config /\ unmarked \subseteq Params
  BY <1>2, MarksAtTheStart
<1>4. TypeOK
  <2>1. 0 \in 0..MaxEdits
    BY BoundsAssumption
  <2>2. file \in File \union {NoFile, Garbled}
    BY <1>2 DEF StartedFrom
  <2>. QED BY <1>3, <2>1, <2>2 DEF Init, Closed, TypeOK
<1>5. LegacyIsFromFile
  BY <1>2, LegacyAtTheStart DEF LegacyIsFromFile
<1>6. UnsavedIsMarked
  BY <1>2, MarksAtTheStart DEF UnsavedIsMarked, Unsaved
<1>7. SavedIsLoadedAgain
  BY DEF Init, Closed, SavedIsLoadedAgain
<1>8. FilePairsOrdered
  BY <1>2 DEF FilePairsOrdered, StartedFrom
<1>9. WarningNeverAboveCritical
  BY <1>2, PairsAtTheStart DEF WarningNeverAboveCritical
<1>. QED BY <1>4, <1>5, <1>6, <1>7, <1>8, <1>9 DEF SettingsInv

\* A step that leaves the configuration and the file, and forgets no mark.
LEMMA NothingChanges ==
    ASSUME SettingsInv, TypeOK', UNCHANGED <<config, file, tearVars>>,
           dirty_parameters \union unmarked \subseteq dirty_parameters' \union unmarked',
           status' = "Saved" => status = "Saved" /\ unmarked' = unmarked
    PROVE  SettingsInv'
BY DEF SettingsInv, LegacyIsFromFile, UnsavedIsMarked, SavedIsLoadedAgain, FilePairsOrdered,
       WarningNeverAboveCritical, Unsaved, Rewritten, tearVars

\* A parameter gets another value.
LEMMA ParameterChanges ==
    ASSUME SettingsInv, NEW q \in Params, NEW v \in Values,
           config' = [config EXCEPT !.param[q] = v], file' = file, UNCHANGED tearVars,
           editing' \in {editing, None}, open' = open, filtering' = filtering, edits' \in 0..MaxEdits,
           status' \in {"Dirty", status},
           dirty_parameters' = dirty_parameters \union {q} \/ dirty_parameters' = dirty_parameters,
           unmarked' = unmarked \union {q} \/ unmarked' = unmarked,
           q \in dirty_parameters' \union unmarked',
           status' = "Saved" => unmarked' = unmarked \union {q}
    PROVE  SettingsInv'
<1>. USE DEF SettingsInv
<1>1. config \in Config
  BY DEF TypeOK
<1>2. /\ config' \in Config
      /\ config'.default = config.default /\ config'.override = config.override
      /\ config'.legacy = config.legacy /\ config'.sidefile = config.sidefile
      /\ \A r \in Params : r # q => config'.param[r] = config.param[r]
  BY <1>1 DEF Config
<1>3. TypeOK'
  BY <1>2 DEF TypeOK, tearVars
<1>4. /\ \A row : Read(config', row) = Read(config, row)
                  /\ Effective(config', row) = Effective(config, row)
      /\ \A table : PairOf(config', table) = PairOf(config, table)
      /\ Rewritten' = Rewritten /\ torn' = torn /\ spoiled' = spoiled
  BY <1>2 DEF Read, Effective, PairOf, Rewritten, tearVars
<1>5. LegacyIsFromFile' /\ FilePairsOrdered' /\ WarningNeverAboveCritical'
  BY <1>2, <1>4 DEF LegacyIsFromFile, FilePairsOrdered, WarningNeverAboveCritical
<1>6. Unsaved(file)' \subseteq Unsaved(file) \union {q}
  BY <1>2 DEF Unsaved
<1>7. UnsavedIsMarked'
  BY <1>6 DEF UnsavedIsMarked
<1>8. SavedIsLoadedAgain'
  BY <1>2, <1>4, <1>6 DEF SavedIsLoadedAgain
<1>. QED BY <1>3, <1>5, <1>7, <1>8

\* The thresholds or the integration change, and the status says so.
LEMMA ThresholdsChange ==
    ASSUME SettingsInv, TypeOK', file' = file, status' = "Dirty",
           UNCHANGED <<dirty_parameters, unmarked, torn>>,
           config'.param = config.param, config'.legacy = config.legacy,
           config.legacy = None =>
               \A row \in Rows \ spoiled' : PairOf(config', row) # None =>
                   PairOf(config', row).warning <= PairOf(config', row).critical
    PROVE  SettingsInv'
BY DEF SettingsInv, LegacyIsFromFile, UnsavedIsMarked, SavedIsLoadedAgain, FilePairsOrdered,
       WarningNeverAboveCritical, Unsaved

-----------------------------------------------------------------------------
(* The steps *)

\* Opening, closing, filtering and typing.
LEMMA BrowsingKeeps ==
    ASSUME SettingsInv,
           \/ Open \/ Close \/ StartFilter \/ CancelFilter \/ CancelEdit \/ CommitRejected
           \/ SaveRefused \/ UNCHANGED vars
           \/ \E field \in Fields \union Numbers : StartEdit(field)
           \/ \E text \in Texts : TypeText(text)
    PROVE  SettingsInv'
<1>0. TypeOK
  BY DEF SettingsInv
<1>1. CASE Open
  <2>1. TypeOK'
    BY <1>0, <1>1 DEF Open, TypeOK, Unsaved, tearVars
  <2>2. UnsavedIsMarked'
    BY <1>1 DEF Open, UnsavedIsMarked, Unsaved
  <2>. QED BY <1>1, <2>1, <2>2 DEF Open, SettingsInv, LegacyIsFromFile, SavedIsLoadedAgain,
                                   FilePairsOrdered, WarningNeverAboveCritical, tearVars
<1>2. CASE Close \/ StartFilter \/ CancelFilter \/ CancelEdit \/ CommitRejected \/ SaveRefused
           \/ UNCHANGED vars
  <2>1. /\ UNCHANGED <<config, file, edits, dirty_parameters, unmarked, tearVars>>
        /\ status' = status \/ status' = "Error"
        /\ \/ UNCHANGED <<open, filtering, editing>>
           \/ open' = FALSE /\ editing' = None /\ filtering' = filtering
           \/ editing = None /\ open' = open /\ editing' = None /\ filtering' = TRUE
           \/ filtering' = FALSE /\ UNCHANGED <<open, editing>>
           \/ editing' = None /\ UNCHANGED <<open, filtering>>
    BY <1>2 DEF Close, StartFilter, CancelFilter, CancelEdit, CommitRejected, SaveRefused, vars,
                overlayVars, Commanding
  <2>2. TypeOK'
    <3>1. editing' \in ((Fields \union Numbers) \X Texts) \union {None}
      BY <1>0, <2>1 DEF TypeOK
    <3>2. open' \in BOOLEAN /\ filtering' \in BOOLEAN
      BY <1>0, <2>1 DEF TypeOK
    <3>3. editing' # None => open' /\ ~filtering'
      BY <1>0, <2>1 DEF TypeOK
    <3>4. /\ status' \in {"Idle", "Dirty", "Error", "Saved"}
          /\ dirty_parameters' \subseteq Params /\ unmarked' \subseteq Params
          /\ config' \in Config /\ file' \in File \union {NoFile, Garbled}
          /\ edits' \in 0..MaxEdits /\ torn' \subseteq Tables /\ spoiled' \subseteq Rows
      BY <1>0, <2>1 DEF TypeOK, tearVars
    <3>. QED BY <3>1, <3>2, <3>3, <3>4 DEF TypeOK
  <2>. QED BY <2>1, <2>2, NothingChanges
<1>3. ASSUME NEW field \in Fields \union Numbers, StartEdit(field) PROVE SettingsInv'
  <2>1. editing' \in (Fields \union Numbers) \X Texts
    <3>1. CASE field \in Numbers
      <4>1. config.param[field] \in {0, 1}
        BY <1>0, <3>1, FieldsAssumption DEF TypeOK, Config, Values
      <4>2. config.param[field] \in Texts
        BY <4>1, BoundsAssumption DEF Texts, Typed
      <4>. QED BY <1>3, <3>1, <4>2 DEF StartEdit
    <3>2. CASE field \notin Numbers
      <4>1. field \in Rows \X Bounds
        BY <3>2 DEF Fields
      <4>2. Effective(config, field[1]) \in Pair
        BY <1>0, <4>1, RowsAreRead DEF TypeOK
      <4>3. Effective(config, field[1])[field[2]] \in Typed
        BY <4>1, <4>2, Evens DEF Pair, Bounds
      <4>. QED BY <1>3, <3>2, <4>3 DEF StartEdit, Texts
    <3>. QED BY <3>1, <3>2
  <2>2. /\ UNCHANGED <<open, filtering, dirty_parameters, config, file, edits, unmarked, tearVars>>
        /\ status' = "Idle" /\ open /\ ~filtering
    BY <1>3 DEF StartEdit, Commanding
  <2>3. TypeOK'
    BY <1>0, <2>1, <2>2 DEF TypeOK, tearVars
  <2>. QED BY <2>2, <2>3, NothingChanges
<1>4. ASSUME NEW text \in Texts, TypeText(text) PROVE SettingsInv'
  <2>1. /\ editing # None /\ editing' = <<editing[1], text>>
        /\ UNCHANGED <<open, filtering, status, dirty_parameters, config, file, edits, unmarked>>
        /\ UNCHANGED tearVars
    BY <1>4 DEF TypeText
  <2>2. editing' \in (Fields \union Numbers) \X Texts
    BY <1>0, <2>1 DEF TypeOK
  <2>3. TypeOK'
    BY <1>0, <2>1, <2>2 DEF TypeOK, tearVars
  <2>. QED BY <2>1, <2>3, NothingChanges
<1>. QED BY <1>1, <1>2, <1>3, <1>4

\* Parameters that are typed, toggled, or toggled from the dashboard.
LEMMA ParametersKeep ==
    ASSUME SettingsInv,
           CommitParameter \/ \E q \in Params : ActivateParameter(q) \/ ToggleOutside(q)
    PROVE  SettingsInv'
<1>0. TypeOK /\ \A q \in Params : 1 - config.param[q] \in Values
  BY DEF SettingsInv, TypeOK, Config, Values
<1>1. CASE CommitParameter
  <2>. DEFINE q == editing[1]
              v == editing[2]
  <2>1. q \in Params /\ v \in Values
    BY <1>1, FieldsAssumption DEF CommitParameter, Accepts
  <2>2. edits' \in 0..MaxEdits
    BY <1>0, <1>1, BoundsAssumption DEF CommitParameter, Edit, TypeOK
  <2>3. /\ config' = [config EXCEPT !.param[q] = v] /\ editing' = None /\ status' = "Dirty"
        /\ dirty_parameters' = dirty_parameters \union {q}
        /\ UNCHANGED <<open, filtering, file, unmarked, tearVars>>
    BY <1>1 DEF CommitParameter, MarkDirty
  <2>. HIDE DEF q, v
  <2>. QED BY <2>1, <2>2, <2>3, ParameterChanges
<1>2. ASSUME NEW q \in Params, ActivateParameter(q) \/ ToggleOutside(q) PROVE SettingsInv'
  <2>1. edits' \in 0..MaxEdits
    BY <1>0, <1>2, BoundsAssumption DEF ActivateParameter, ToggleOutside, Edit, TypeOK
  <2>2. config' = [config EXCEPT !.param[q] = 1 - config.param[q]] /\ file' = file
    BY <1>2 DEF ActivateParameter, ToggleOutside, Toggled
  <2>3. CASE ActivateParameter(q)
    <3>1. /\ editing' = editing /\ open' = open /\ filtering' = filtering /\ status' = "Dirty"
          /\ dirty_parameters' = dirty_parameters \union {q} /\ unmarked' = unmarked
          /\ UNCHANGED tearVars
      BY <2>3 DEF ActivateParameter, MarkDirty
    <3>. QED BY <1>0, <2>1, <2>2, <3>1, ParameterChanges
  <2>4. CASE ToggleOutside(q)
    <3>1. /\ editing' = editing /\ open' = open /\ filtering' = filtering /\ status' = status
          /\ dirty_parameters' = dirty_parameters /\ unmarked' = unmarked \union {q}
          /\ UNCHANGED tearVars
      BY <2>4 DEF ToggleOutside, overlayVars
    <3>. QED BY <1>0, <2>1, <2>2, <3>1, ParameterChanges
  <2>. QED BY <1>2, <2>3, <2>4
<1>. QED BY <1>1, <1>2

\* A pair with one of its bounds replaced by a value that was accepted beside
\* the other.
LEMMA ReplacedBound ==
    ASSUME NEW pair \in Pair, NEW bound \in Bounds, NEW v \in Typed
    PROVE  /\ [pair EXCEPT ![bound] = Narrow(v)] \in Pair
           /\ (IF bound = "warning" THEN v < pair.critical ELSE pair.warning < v) =>
                  [pair EXCEPT ![bound] = Narrow(v)].warning
                      <= [pair EXCEPT ![bound] = Narrow(v)].critical
<1>1. /\ pair.warning \in Stored /\ pair.critical \in Stored
      /\ pair.warning \in Nat /\ pair.critical \in Nat
  BY Evens DEF Pair
<1>2. Narrow(v) \in Stored /\ Narrow(v) \in Nat /\ v \in Nat /\ v <= Narrow(v)
  <2>1. Narrow(v) \in Stored /\ v <= Narrow(v) /\ Stored \subseteq Nat
    BY Evens
  <2>2. v \in Nat
    BY BoundsAssumption DEF Typed
  <2>. QED BY <2>1, <2>2
<1>3. v < pair.critical => Narrow(v) <= pair.critical
  BY <1>1, Evens
<1>4. CASE bound = "warning"
  BY <1>1, <1>2, <1>3, <1>4 DEF Pair
<1>5. CASE bound = "critical"
  BY <1>1, <1>2, <1>5 DEF Pair
<1>. QED BY <1>4, <1>5 DEF Bounds

LEMMA ThresholdsKeep ==
    ASSUME SettingsInv,
           CommitThreshold \/ ToggleIntegration \/ \E s \in Scopes : ClearOverride(s)
    PROVE  SettingsInv'
<1>0. TypeOK /\ config \in Config /\ WarningNeverAboveCritical
  BY DEF SettingsInv, TypeOK
<1>1. edits' \in 0..MaxEdits
  BY <1>0, BoundsAssumption DEF CommitThreshold, ToggleIntegration, ClearOverride, Edit, TypeOK
<1>2. CASE CommitThreshold
  <2>1. PICK row \in Rows, bound \in Bounds, v \in Typed :
            /\ config' = Applied(row, bound, v) /\ ValidFieldValue(row, bound, v)
            /\ spoiled' = spoiled \ {row}
    <3>1. editing[1] \in Rows \X Bounds
      BY <1>2 DEF CommitThreshold, Fields
    <3>2. editing[1] \notin Numbers
      BY <3>1, KeysAre, FieldsAssumption
    <3>3. editing[2] \in Typed /\ ValidFieldValue(editing[1][1], editing[1][2], editing[2])
      BY <1>2, <3>2 DEF CommitThreshold, Accepts
    <3>. QED BY <1>2, <3>1, <3>3 DEF CommitThreshold
  <2>. DEFINE entry == IF row = Default \/ config.override[row] = None THEN config.default
                       ELSE config.override[row]
              new == [entry EXCEPT ![bound] = Narrow(v)]
  <2>2. entry \in Pair /\ (config.legacy = None => entry = Effective(config, row))
    BY <1>0, RowsAreRead DEF Config, Rows
  <2>3. new \in Pair /\ (config.legacy = None => new.warning <= new.critical)
    BY <2>1, <2>2, ReplacedBound DEF ValidFieldValue
  <2>4. config' = IF row = Default THEN [config EXCEPT !.default = new]
                                   ELSE [config EXCEPT !.override[row] = new]
    BY <1>0, <2>1 DEF Applied, Config
  <2>. HIDE DEF entry, new
  <2>5. /\ config' \in Config /\ config'.legacy = config.legacy /\ config'.param = config.param
        /\ config'.default = IF row = Default THEN new ELSE config.default
        /\ \A s \in Scopes : config'.override[s] =
               IF row = s /\ row # Default THEN new ELSE config.override[s]
    BY <1>0, <2>3, <2>4 DEF Config, Rows
  <2>6. ASSUME config.legacy = None, NEW r \in Rows \ spoiled', PairOf(config', r) # None
        PROVE  PairOf(config', r).warning <= PairOf(config', r).critical
    <3>1. PairOf(config', r) = IF r = row THEN new ELSE PairOf(config, r)
      BY <2>5, KeysAre DEF PairOf, Rows
    <3>. QED BY <1>0, <2>1, <2>3, <2>6, <3>1 DEF WarningNeverAboveCritical
  <2>7. TypeOK'
    BY <1>0, <1>1, <1>2, <2>1, <2>5 DEF CommitThreshold, TypeOK
  <2>. QED BY <1>2, <2>5, <2>6, <2>7, ThresholdsChange DEF CommitThreshold
<1>3. CASE ToggleIntegration
  <2>1. config' = [config EXCEPT !.sidefile = 1 - config.sidefile]
    BY <1>3 DEF ToggleIntegration
  <2>2. 1 - config.sidefile \in Values
    BY <1>0 DEF Config, Values
  <2>3. /\ config' \in Config /\ config'.legacy = config.legacy /\ config'.param = config.param
        /\ config'.default = config.default /\ config'.override = config.override
    BY <1>0, <2>1, <2>2 DEF Config
  <2>4. UNCHANGED tearVars /\ \A table : PairOf(config', table) = PairOf(config, table)
    BY <1>3, <2>3 DEF ToggleIntegration, PairOf
  <2>5. TypeOK'
    BY <1>0, <1>1, <1>3, <2>3 DEF ToggleIntegration, TypeOK, tearVars
  <2>. QED BY <1>0, <1>3, <2>3, <2>4, <2>5, ThresholdsChange
         DEF ToggleIntegration, WarningNeverAboveCritical, tearVars
<1>4. ASSUME NEW s \in Scopes, ClearOverride(s) PROVE SettingsInv'
  <2>1. config' = [config EXCEPT !.override[s] = None] /\ spoiled' = spoiled \ {s}
    BY <1>4 DEF ClearOverride
  <2>2. /\ config' \in Config /\ config'.legacy = config.legacy /\ config'.param = config.param
        /\ config'.default = config.default
        /\ \A r \in Scopes : config'.override[r] = IF r = s THEN None ELSE config.override[r]
    BY <1>0, <2>1 DEF Config
  <2>3. ASSUME NEW r \in Rows
        PROVE  PairOf(config', r) = IF r = s THEN None ELSE PairOf(config, r)
    BY <2>2, KeysAre DEF PairOf, Rows
  <2>4. config.legacy = None => \A r \in Rows \ spoiled' : PairOf(config', r) # None =>
            PairOf(config', r).warning <= PairOf(config', r).critical
    BY <1>0, <2>1, <2>3 DEF WarningNeverAboveCritical
  <2>5. TypeOK'
    BY <1>0, <1>1, <1>4, <2>1, <2>2 DEF ClearOverride, TypeOK
  <2>. QED BY <1>4, <2>2, <2>4, <2>5, ThresholdsChange DEF ClearOverride
<1>. QED BY <1>2, <1>3, <1>4

\* What is written is what runs, as far as it is written at all.
LEMMA BodyIs ==
    ASSUME SettingsInv, Saves
    PROVE  /\ Body \in File /\ Body \notin {NoFile, Garbled}
           /\ Body[Sidefile] = config.sidefile
           /\ \A row \in Rewritten, b \in Bounds : Body[<<row, b>>] = Read(config, row)[b]
           /\ \A table \in Tables \ Rewritten, b \in Bounds :
                  Line(Body, <<table, b>>) = Line(file, <<table, b>>)
           /\ \A q \in Params : q \in dirty_parameters \/ config.param[q] = Line(file, q)
                  => Line(Body, q) = config.param[q]
           /\ config.legacy = None => \A b \in Bounds : Body[<<Legacy, b>>] = None
<1>. USE DEF SettingsInv
<1>1. /\ config \in Config /\ file \in File \union {NoFile} /\ dirty_parameters \subseteq Params
      /\ config.sidefile \in Values /\ config.default \in Pair
      /\ \A q \in Params : config.param[q] \in Values
  BY DEF TypeOK, Config, Saves
<1>2. /\ \A row \in Rewritten : row \in Rows /\ Read(config, row) \in Pair
      /\ \A row \in Rewritten, b \in Bounds : Read(config, row)[b] \in Stored
      /\ Default \in Rewritten
  <2>1. \A row \in Rewritten : row \in Rows /\ Read(config, row) \in Pair
    BY <1>1, RowsAreRead DEF Rewritten
  <2>2. Default \in Rows /\ Read(config, Default) # None
    BY <1>1, RowsAreRead, NoneAssumption DEF Rows
  <2>. QED BY <2>1, <2>2 DEF Rewritten, Pair, Bounds
<1>3. \A k : Over(None, LineOf(Base, k)) = LineOf(Base, k)
  BY DEF Over
<1>4. CASE file = NoFile
  <2>1. /\ Body = [k \in Keys |-> IF k \in {Legacy} \X Bounds THEN None ELSE LineOf(config, k)]
        /\ config.legacy = None
    BY <1>4 DEF Body, Scaffold, LegacyIsFromFile
  <2>2. /\ \A b \in Bounds : Body[<<Legacy, b>>] = None
        /\ \A table \in Rows, b \in Bounds : Body[<<table, b>>] = LineOf(config, <<table, b>>)
        /\ Body[Sidefile] = config.sidefile /\ \A q \in Params : Body[q] = config.param[q]
    BY <1>1, <2>1, KeysAre, LinesAre
  <2>3. /\ \A row \in Rewritten : PairOf(config, row) = Read(config, row)
        /\ \A table \in Rows \ Rewritten : PairOf(config, table) = None
    BY <1>1, <2>1, RowsAreRead, LinesAre DEF Rewritten, Rows
  <2>4. /\ \A row \in Rewritten, b \in Bounds : Body[<<row, b>>] = Read(config, row)[b]
        /\ \A table \in Tables \ Rewritten, b \in Bounds : Body[<<table, b>>] = None
    BY <1>1, <1>2, <2>2, <2>3, KeysAre, LinesAre, NoneAssumption DEF Tables
  <2>5. Body \in File
    <3>1. \A k \in Tables \X Bounds : Body[k] \in Stored \union {None}
      BY <1>2, <2>4
    <3>2. \A k \in Params \union {Sidefile} : Body[k] \in Values \union {None}
      BY <1>1, <2>2
    <3>3. Body \in [Keys -> Stored \union Values \union {None}]
      BY <2>1, <3>1, <3>2 DEF Keys
    <3>. QED BY <3>1, <3>2, <3>3 DEF File
  <2>6. Body \notin {NoFile, Garbled}
    BY <2>5, NoneAssumption
  <2>7. \A table \in Tables \ Rewritten, b \in Bounds :
            Line(Body, <<table, b>>) = Line(file, <<table, b>>)
    BY <1>3, <1>4, <2>4, <2>6 DEF Line
  <2>8. \A q \in Params : Line(Body, q) = config.param[q]
    BY <1>1, <2>2, <2>6, NumbersAreNoNone DEF Line, Over
  <2>. QED BY <2>2, <2>4, <2>5, <2>6, <2>7, <2>8
<1>5. CASE file # NoFile
  <2>1. /\ Body = [k \in Keys |-> IF k \in dirty_parameters THEN config.param[k]
                                                           ELSE MergedLine(k)]
        /\ file \in File /\ file \notin {NoFile, Garbled}
    BY <1>1, <1>5 DEF Body, Merged, Saves
  <2>2. /\ Body[Sidefile] = config.sidefile
        /\ \A q \in Params : Body[q] = IF q \in dirty_parameters THEN config.param[q] ELSE file[q]
        /\ \A row \in Rewritten, b \in Bounds : Body[<<row, b>>] = Read(config, row)[b]
        /\ \A table \in Tables \ Rewritten, b \in Bounds : Body[<<table, b>>] = file[<<table, b>>]
    <3>1. Body[Sidefile] = config.sidefile
      BY <1>1, <2>1, KeysAre DEF MergedLine
    <3>2. ASSUME NEW q \in Params
          PROVE  Body[q] = IF q \in dirty_parameters THEN config.param[q] ELSE file[q]
      <4>1. q \in Keys /\ q # Sidefile /\ q \notin Rewritten \X Bounds
        BY <1>2, KeysAre
      <4>. QED BY <2>1, <4>1 DEF MergedLine
    <3>3. ASSUME NEW table \in Tables, NEW b \in Bounds
          PROVE  Body[<<table, b>>] = IF table \in Rewritten THEN Read(config, table)[b]
                                                             ELSE file[<<table, b>>]
      <4>1. /\ <<table, b>> \in Keys /\ <<table, b>> # Sidefile
            /\ <<table, b>> \notin dirty_parameters
        BY <1>1, KeysAre
      <4>. QED BY <2>1, <4>1 DEF MergedLine
    <3>. QED BY <1>2, <3>1, <3>2, <3>3, KeysAre
  <2>3. Body \in File
    <3>1. \A k \in Tables \X Bounds : Body[k] \in Stored \union {None}
      BY <1>2, <2>1, <2>2 DEF File
    <3>2. \A k \in Params \union {Sidefile} : Body[k] \in Values \union {None}
      BY <1>1, <2>1, <2>2 DEF File
    <3>3. Body \in [Keys -> Stored \union Values \union {None}]
      BY <2>1, <3>1, <3>2 DEF Keys
    <3>. QED BY <3>1, <3>2, <3>3 DEF File
  <2>4. Body \notin {NoFile, Garbled}
    BY <2>3, NoneAssumption
  <2>5. \A k : Line(Body, k) = Over(Body[k], LineOf(Base, k))
               /\ Line(file, k) = Over(file[k], LineOf(Base, k))
    BY <2>1, <2>4 DEF Line
  <2>6. \A q \in Params : q \in dirty_parameters \/ config.param[q] = Line(file, q)
            => Line(Body, q) = config.param[q]
    BY <1>1, <2>2, <2>5, NumbersAreNoNone DEF Over
  <2>7. config.legacy = None => \A b \in Bounds : Body[<<Legacy, b>>] = None
    BY <1>2, <2>1, <2>2, KeysAre DEF LegacyIsFromFile
  <2>. QED BY <2>2, <2>3, <2>4, <2>5, <2>6, <2>7
<1>. QED BY <1>4, <1>5

\* Every table that is written loads the pair that runs, and the others what they
\* loaded before: all are in order, but those torn before and not written.
LEMMA BodyLoads ==
    ASSUME SettingsInv, Saves
    PROVE  /\ \A row \in Rewritten :
                  /\ PairIn(Body, row) = Read(config, row) /\ ~HalfWritten(Body, row)
                  /\ Effective(Loaded(Body), row) = Effective(config, row)
           /\ \A table \in Tables \ (torn \ Rewritten) : OrderedIn(Body, table)
<1>1. config \in Config /\ Body \in File \union {NoFile, Garbled} /\ Loaded(Body) \in Config
  BY BodyIs, LoadedIsTyped DEF SettingsInv, TypeOK
<1>2. ASSUME NEW row \in Rewritten
      PROVE  /\ PairIn(Body, row) = Read(config, row) /\ ~HalfWritten(Body, row)
             /\ Effective(Loaded(Body), row) = Effective(config, row)
             /\ OrderedIn(Body, row)
  <2>1. row \in Rows /\ Read(config, row) \in Pair /\ row \in Tables
    BY <1>1, RowsAreRead, KeysAre DEF Rewritten
  <2>2. \A b \in Bounds : Read(config, row)[b] \in Stored
    BY <2>1 DEF Pair, Bounds
  <2>3. \A b \in Bounds : Line(Body, <<row, b>>) = Read(config, row)[b]
    BY <2>2, BodyIs, NumbersAreNoNone DEF Line, Over
  <2>4. \A b \in Bounds : Line(Body, <<row, b>>) # None
    BY <2>2, <2>3, NumbersAreNoNone
  <2>5. PairIn(Body, row) \in Pair /\ PairIn(Body, row) # None
    BY <1>1, <2>1, <2>4, PairTypes
  <2>6. PairIn(Body, row).warning = Read(config, row).warning
        /\ PairIn(Body, row).critical = Read(config, row).critical
    BY <1>1, <2>1, <2>3, <2>5, PairTypes DEF Bounds
  <2>7. PairIn(Body, row) = Read(config, row)
    BY <2>1, <2>5, <2>6 DEF Pair
  <2>8. Effective(config, row) = Read(config, row) /\ Ordered(Read(config, row))
    BY <1>1, <2>1, RowsAreRead DEF Rewritten, Saves, ValidFullConfig
  <2>9. Effective(Loaded(Body), row) = PairIn(Body, row)
    <3>1. PairOf(Loaded(Body), row) = PairIn(Body, row)
      BY <1>1, <2>1, LoadedIsTyped
    <3>2. Read(Loaded(Body), row) = PairIn(Body, row)
      BY <1>1, <2>1, <2>5, <3>1, RowsAreRead, LinesAre DEF Rows
    <3>. QED BY <1>1, <2>1, <2>5, <3>2, RowsAreRead
  <2>10. ~HalfWritten(Body, row)
    BY <2>4 DEF HalfWritten, Bounds
  <2>. QED BY <2>7, <2>8, <2>9, <2>10 DEF OrderedIn
<1>3. ASSUME NEW table \in Tables \ Rewritten, table \notin torn PROVE OrderedIn(Body, table)
  <2>1. PairIn(Body, table) = PairIn(file, table)
    BY BodyIs, SamePair
  <2>. QED BY <1>3, <2>1 DEF OrderedIn, SettingsInv, FilePairsOrdered
<1>. QED BY <1>2, <1>3

LEMMA SaveKeeps == SettingsInv /\ Save => SettingsInv'
<1>. SUFFICES ASSUME SettingsInv, Save PROVE SettingsInv'
  OBVIOUS
<1>. USE DEF SettingsInv
<1>1. /\ file' = Body /\ torn' = torn \ Rewritten
      /\ Saves /\ dirty_parameters' = {} /\ status' = "Saved"
      /\ UNCHANGED <<open, editing, filtering, config, edits, unmarked, spoiled>>
  BY DEF Save
<1>2. Body \in File /\ Body \notin {NoFile, Garbled} /\ Rewritten' = Rewritten
  BY <1>1, BodyIs DEF Rewritten
<1>3. TypeOK'
  BY <1>1, <1>2 DEF TypeOK
<1>4. LegacyIsFromFile'
  BY <1>1, <1>2, BodyIs DEF LegacyIsFromFile
<1>5. \A q \in Params : config.param[q] # Loaded(file').param[q] => q \in unmarked
  <2>1. file \in File \union {NoFile, Garbled} /\ file' \in File \union {NoFile, Garbled}
    BY <1>1, <1>2 DEF TypeOK
  <2>2. \A q \in Params : /\ Loaded(file).param[q] = Line(file, q)
                          /\ Loaded(file').param[q] = Line(Body, q)
    BY <1>1, <2>1, LoadedIsTyped
  <2>. QED BY <1>1, <2>2, BodyIs DEF UnsavedIsMarked, Unsaved
<1>6. Unsaved(file)' \subseteq unmarked'
  BY <1>1, <1>5 DEF Unsaved
<1>7. UnsavedIsMarked'
  BY <1>6 DEF UnsavedIsMarked
<1>8. SavedIsLoadedAgain'
  <2>1. \A row \in Rewritten : /\ Effective(Loaded(file'), row) = Effective(config', row)
                               /\ ~HalfWritten(file', row)
    BY <1>1, BodyLoads
  <2>2. Loaded(file').sidefile = config'.sidefile
    <3>1. Loaded(Body).sidefile = Over(Body[Sidefile], LineOf(Base, Sidefile))
      BY <1>2, LoadedIsTyped DEF Line
    <3>2. Body[Sidefile] = config.sidefile /\ config.sidefile # None
      BY <1>1, BodyIs, NumbersAreNoNone DEF TypeOK, Config
    <3>. QED BY <1>1, <3>1, <3>2 DEF Over
  <2>. QED BY <1>2, <1>6, <2>1, <2>2 DEF SavedIsLoadedAgain
<1>9. FilePairsOrdered'
  BY <1>1, BodyLoads DEF FilePairsOrdered
<1>10. WarningNeverAboveCritical'
  BY <1>1 DEF WarningNeverAboveCritical
<1>. QED BY <1>3, <1>4, <1>7, <1>8, <1>9, <1>10

\* A file that a write was torn in holds nothing that the body does not hold, but
\* for the line that is cut.
LEMMA TornIs ==
    ASSUME NEW body \in File, NEW order \in Orders, NEW n \in 0..Len(order),
           NEW f \in Torn(body, order, n), f # Garbled
    PROVE  f \in File /\ \A k \in Keys : body[k] = None => f[k] = None
<1>. DEFINE kept == [k \in Keys |-> IF \E i \in 1..n : order[i] = k THEN body[k] ELSE None]
<1>1. kept \in File /\ \A k \in Keys : kept[k] \in {body[k], None}
  BY KeysAre DEF File, Keys
<1>. HIDE DEF kept
<1>2. CASE f = kept
  BY <1>1, <1>2
<1>3. CASE n # 0 /\ \E v \in Cut(order[n], body[order[n]]) : f = [kept EXCEPT ![order[n]] = v]
  <2>. DEFINE k == order[n]
  <2>1. k \in Keys
    BY <1>3, OrdersAssumption
  <2>2. PICK v \in Cut(k, body[k]) : f = [kept EXCEPT ![k] = v]
    BY <1>3
  <2>. HIDE DEF k
  <2>3. body[k] # None /\ (k \in Tables \X Bounds => v \in Stored)
        /\ (k \notin Tables \X Bounds => v \in Values /\ k \in Params)
    BY <2>2, FieldsAssumption DEF Cut
  <2>4. \A l \in Keys : f[l] = IF l = k THEN v ELSE kept[l]
    BY <1>1, <2>1, <2>2 DEF File
  <2>5. \A l \in Tables \X Bounds : f[l] \in Stored \union {None}
    BY <1>1, <2>3, <2>4 DEF File, Keys
  <2>6. \A l \in Params \union {Sidefile} : f[l] \in Values \union {None}
    <3>1. \A l \in Params \union {Sidefile} : l \in Keys /\ l \notin Tables \X Bounds
      BY FieldsAssumption DEF Keys
    <3>. QED BY <1>1, <2>3, <2>4, <3>1 DEF File
  <2>7. f \in [Keys -> Stored \union Values \union {None}]
    BY <1>1, <2>2, <2>3 DEF File
  <2>. QED BY <1>1, <2>3, <2>4, <2>5, <2>6, <2>7 DEF File
<1>. QED BY <1>2, <1>3 DEF Torn, kept

\* A table that a write did not stop in loads what it loads from the body, or what
\* lies beneath the file.
LEMMA TornKeeps == SettingsInv /\ SaveTorn => SettingsInv'
<1>. SUFFICES ASSUME SettingsInv, SaveTorn PROVE SettingsInv'
  OBVIOUS
<1>. USE DEF SettingsInv
<1>1. /\ Saves /\ Edit /\ status' = "Error" /\ unmarked' = unmarked \union Unsaved(file')
      /\ torn' = (torn \ Rewritten) \union Split(file', Body)
      /\ UNCHANGED <<open, editing, filtering, dirty_parameters, config, spoiled>>
      /\ \E order \in Orders : \E n \in 0..Len(order) : file' \in Torn(Body, order, n)
  BY DEF SaveTorn
<1>2. Body \in File /\ Body \notin {NoFile, Garbled}
  BY <1>1, BodyIs
<1>3. file' # Garbled => file' \in File /\ \A k \in Keys : Body[k] = None => file'[k] = None
  BY <1>1, <1>2, TornIs
<1>4. file' \in File \union {Garbled} /\ file' # NoFile
  BY <1>3, NoneAssumption
<1>5. TypeOK'
  <2>1. Unsaved(file') \subseteq Params /\ Split(file', Body) \subseteq Tables
    BY DEF Unsaved, Split
  <2>2. edits' \in 0..MaxEdits
    BY <1>1, BoundsAssumption DEF Edit, TypeOK
  <2>. QED BY <1>1, <1>4, <2>1, <2>2 DEF TypeOK
<1>6. LegacyIsFromFile'
  BY <1>1, <1>3, <1>4, BodyIs, KeysAre, NoneAssumption DEF LegacyIsFromFile
<1>7. UnsavedIsMarked'
  BY <1>1 DEF UnsavedIsMarked, Unsaved
<1>8. SavedIsLoadedAgain'
  BY <1>1 DEF SavedIsLoadedAgain
<1>9. FilePairsOrdered'
  <2>. SUFFICES ASSUME NEW table \in Tables \ torn' PROVE OrderedIn(file', table)
    BY DEF FilePairsOrdered
  <2>1. OrderedIn(Body, table) /\ OrderedIn(NoFile, table) /\ table \notin Split(file', Body)
    BY <1>1, BodyLoads, OrderedAssumption
  <2>2. \/ \A b \in Bounds : Line(file', <<table, b>>) = Line(Body, <<table, b>>)
        \/ \A b \in Bounds : Line(file', <<table, b>>) = Line(NoFile, <<table, b>>)
    <3>1. CASE file' = Garbled
      BY <3>1 DEF Line
    <3>2. CASE file' # Garbled
      <4>1. \A k : Line(file', k) = Over(file'[k], LineOf(Base, k))
                   /\ Line(Body, k) = Over(Body[k], LineOf(Base, k))
                   /\ Line(NoFile, k) = LineOf(Base, k)
        BY <1>2, <1>4, <3>2 DEF Line
      <4>2. \/ \A b \in Bounds : file'[<<table, b>>] = Body[<<table, b>>]
            \/ \A b \in Bounds : file'[<<table, b>>] = None
        BY <2>1, <3>2 DEF Split
      <4>. QED BY <4>1, <4>2 DEF Over
    <3>. QED BY <3>1, <3>2
  <2>3. PairIn(file', table) = PairIn(Body, table) \/ PairIn(file', table) = PairIn(NoFile, table)
    BY <2>2, SamePair
  <2>. QED BY <2>1, <2>3 DEF OrderedIn
<1>10. WarningNeverAboveCritical'
  BY <1>1 DEF WarningNeverAboveCritical
<1>. QED BY <1>5, <1>6, <1>7, <1>8, <1>9, <1>10

LEMMA RestartKeeps == SettingsInv /\ Restart => SettingsInv'
<1>. SUFFICES ASSUME SettingsInv, Restart PROVE SettingsInv'
  OBVIOUS
<1>1. PICK requests \in SUBSET Safety :
          /\ config' = Started(file, requests)
          /\ unmarked' = {q \in requests : Loaded(file).param[q] # 0}
  BY DEF Restart
<1>2. /\ open' = FALSE /\ editing' = None /\ filtering' = FALSE
      /\ status' = "Idle" /\ dirty_parameters' = {} /\ file' = file /\ edits' = edits
      /\ torn' = torn /\ spoiled' = torn \intersect Rows
  BY DEF Restart
<1>3. StartedFrom(file, config', requests, unmarked', torn, spoiled')
  <2>1. file \in File \union {NoFile} /\ Loads(file)
    BY DEF Restart, Loads, SettingsInv, TypeOK
  <2>. QED BY <1>1, <1>2, <2>1 DEF StartedFrom, SettingsInv, FilePairsOrdered
<1>4. TypeOK'
  <2>1. config' \in Config /\ unmarked' \subseteq Params
    BY <1>3, MarksAtTheStart
  <2>. QED BY <1>2, <2>1 DEF SettingsInv, TypeOK
<1>5. LegacyIsFromFile'
  BY <1>2, <1>3, LegacyAtTheStart DEF LegacyIsFromFile
<1>6. UnsavedIsMarked'
  BY <1>2, <1>3, MarksAtTheStart DEF UnsavedIsMarked, Unsaved
<1>7. SavedIsLoadedAgain'
  BY <1>2 DEF SavedIsLoadedAgain
<1>8. FilePairsOrdered'
  BY <1>2 DEF SettingsInv, FilePairsOrdered
<1>9. WarningNeverAboveCritical'
  BY <1>2, <1>3, PairsAtTheStart DEF WarningNeverAboveCritical
<1>. QED BY <1>4, <1>5, <1>6, <1>7, <1>8, <1>9 DEF SettingsInv

LEMMA SettingsInvStep == SettingsInv /\ [Next]_vars => SettingsInv'
<1>. SUFFICES ASSUME SettingsInv, [Next]_vars PROVE SettingsInv'
  OBVIOUS
<1>1. CASE \/ Open \/ Close \/ StartFilter \/ CancelFilter \/ CancelEdit \/ CommitRejected
           \/ SaveRefused \/ UNCHANGED vars
           \/ \E field \in Fields \union Numbers : StartEdit(field)
           \/ \E text \in Texts : TypeText(text)
  BY <1>1, BrowsingKeeps
<1>2. CASE CommitParameter \/ \E q \in Params : ActivateParameter(q) \/ ToggleOutside(q)
  BY <1>2, ParametersKeep
<1>3. CASE CommitThreshold \/ ToggleIntegration \/ \E s \in Scopes : ClearOverride(s)
  BY <1>3, ThresholdsKeep
<1>4. CASE Save
  BY <1>4, SaveKeeps
<1>5. CASE SaveTorn
  BY <1>5, TornKeeps
<1>6. CASE Restart
  BY <1>6, RestartKeeps
<1>. QED BY <1>1, <1>2, <1>3, <1>4, <1>5, <1>6 DEF Next

-----------------------------------------------------------------------------
(* The theorems *)

LEMMA SettingsInvHolds == Spec => []SettingsInv
<1>1. Init => SettingsInv
  BY SettingsInvInit
<1>2. SettingsInv /\ [Next]_vars => SettingsInv'
  BY SettingsInvStep
<1>. QED BY <1>1, <1>2, PTL DEF Spec

\* The overlay never edits and filters at once, nor edits while it is closed, and
\* every threshold that runs or is written is one that can be stored
\* (SettingsOverlay, apply_field_value, merge_overlay_fields).
THEOREM SettingsTypes == Spec => []TypeOK
<1>1. SettingsInv => TypeOK
  BY DEF SettingsInv
<1>. QED BY <1>1, SettingsInvHolds, PTL

\* A running parameter that differs from the file carries a mark, unless it was
\* changed in a way that leaves none (mark_parameter_dirty, save).
THEOREM MarksAreKept == Spec => []UnsavedIsMarked
<1>1. SettingsInv => UnsavedIsMarked
  BY DEF SettingsInv
<1>. QED BY <1>1, SettingsInvHolds, PTL

\* While the overlay says "saved", a restart would find what runs (save,
\* merge_overlay_fields, load_layered_from_paths).
THEOREM SavedIsTrue == Spec => []SavedIsLoadedAgain
<1>1. SettingsInv => SavedIsLoadedAgain
  BY DEF SettingsInv
<1>. QED BY <1>1, SettingsInvHolds, PTL

\* If the files the program finds load ordered pairs, so does every table of the
\* files it leaves, but for one in which a write stopped and which no save has
\* written since: whatever lines a torn write leaves, in whatever order they stand,
\* the other tables load what was saved or what lies beneath the file (save,
\* validate_full_config, load_layered_from_paths).
THEOREM FileIsOrdered == Spec => []FilePairsOrdered
<1>1. SettingsInv => FilePairsOrdered
  BY DEF SettingsInv
<1>. QED BY <1>1, SettingsInvHolds, PTL

\* Narrowing after validation can make the two bounds of a pair equal but not
\* cross them, as long as no legacy override is read, also in a program that was
\* started from a torn file: every pair but those such a file gave is in order, and
\* these are once they are edited (validate_field_value, apply_field_value).
THEOREM RunningIsNotAbove == Spec => []WarningNeverAboveCritical
<1>1. SettingsInv => WarningNeverAboveCritical
  BY DEF SettingsInv
<1>. QED BY <1>1, SettingsInvHolds, PTL
=============================================================================
