--------------------------- MODULE RawSpoolProofs ---------------------------
(***************************************************************************)
(* Proofs about the directory between the measuring and the conversion     *)
(* program, for every number of boards, files and starts.                  *)
(***************************************************************************)
EXTENDS RawSpool, FiniteSetTheorems, TLAPS

SavedFile == [name : Nat \X Nat, run : Nat]

Types ==
  /\ run \in Nat
  /\ starts \in Nat
  /\ counter \in [Boards -> Nat]
  /\ saved \in Seq(SavedFile)
  /\ converted \in Seq(SavedFile)
  /\ Files \subseteq Boards \X Nat
  /\ raw \in [Files -> SavedFile]

(* No two files have both name and run: a thread is past the numbers of the*)
(* files it has saved, and no run is saved that has not begun.             *)
Numbered ==
  \A f \in Elements(saved) :
    /\ f.name[1] \in Boards
    /\ f.run <= run
    /\ f.run = run => f.name[2] < counter[f.name[1]]

(* The directory and the conversion program have saved files only. *)
Stored ==
  /\ \A n \in Files : raw[n] \in Elements(saved) /\ raw[n].name = n
  /\ Elements(converted) \subseteq Elements(saved)

InWork ==
  /\ conv.pc = "open" => conv.name \in Files
  /\ conv.pc \in {"convert", "remove"} =>
       conv.file \in Elements(saved) /\ conv.file.name = conv.name
  /\ conv.pc = "remove" => conv.file \in Elements(converted)

Kept == Types /\ Numbered /\ Stored /\ InWork /\ NothingVanishes

(* No earlier run had a file of that name. *)
Original(f) == \A h \in Elements(saved) : h.name = f.name => ~(h.run < f.run)

(* What BoardOrder asks of a file and of one that is converted after it. *)
Precedes(f, g) ==
  f.run = g.run /\ f.name[1] = g.name[1] /\ Original(f) => f.name[2] <= g.name[2]

(* What was converted precedes what is in work and what is in the directory,*)
(* and what is in work precedes what is in the directory.                  *)
Ordered ==
  /\ \A f \in Elements(converted), n \in Files : Precedes(f, raw[n])
  /\ conv.pc = "open" => \A n \in Files : Precedes(raw[conv.name], raw[n])
  /\ conv.pc = "convert" =>
       /\ \A n \in Files : Precedes(conv.file, raw[n])
       /\ \A f \in Elements(converted) : Precedes(f, conv.file)
  /\ BoardOrder

(* In its first run the conversion program finds nothing in the directory  *)
(* that it has put out already but the file it is about to remove.         *)
Fresh ==
  /\ starts = 0 => conv = Off /\ converted = <<>>
  /\ starts = 1 /\ conv # Off => \A n \in Files :
       raw[n] \in Elements(converted) => conv.pc = "remove" /\ raw[n] = conv.file
  /\ starts = 1 /\ conv.pc = "convert" => conv.file \notin Elements(converted)
  /\ OnceUnlessFailed

-----------------------------------------------------------------------------
(* Sequences and names *)

(* A longer sequence has one element more. *)
LEMMA ElementsOfAppend ==
  ASSUME NEW S, NEW s \in Seq(S), NEW e
  PROVE  Elements(Append(s, e)) = Elements(s) \cup {e}
<1>1. ASSUME NEW i \in DOMAIN s PROVE i \in DOMAIN Append(s, e) /\ Append(s, e)[i] = s[i]
  OBVIOUS
<1>2. Len(s) + 1 \in DOMAIN Append(s, e) /\ Append(s, e)[Len(s) + 1] = e
  OBVIOUS
<1>3. ASSUME NEW i \in DOMAIN Append(s, e) PROVE i \in DOMAIN s \/ i = Len(s) + 1
  OBVIOUS
<1> QED
  BY <1>1, <1>2, <1>3 DEF Elements

LEMMA ElementType ==
  ASSUME NEW S, NEW s \in Seq(S), NEW e \in Elements(s)
  PROVE  e \in S
BY DEF Elements

LEMMA NoElements == Elements(<<>>) = {}
BY DEF Elements

(* The natural numbers are well-ordered: the lower bounds of a set have a  *)
(* greatest element, for the successor would inject them into those but 0. *)
LEMMA Least ==
  ASSUME NEW S, S \subseteq Nat, S # {}
  PROVE  \E m \in S : \A n \in S : m <= n
<1> DEFINE Below == {m \in Nat : \A n \in S : m <= n}
<1>1. PICK k \in S : k \in Nat
  OBVIOUS
<1>2. /\ IsFiniteSet(Below) /\ IsFiniteSet(Below \ {0})
      /\ Cardinality(Below) \in Nat
      /\ Cardinality(Below \ {0}) = Cardinality(Below) - 1
  <2>1. Below \in SUBSET Nat /\ (\A m \in Below : m <= k) /\ 0 \in Below
    BY <1>1
  <2> HIDE DEF Below
  <2>2. IsFiniteSet(Below)
    BY <2>1, <1>1, FS_BoundedSetOfNaturals, Zenon
  <2> QED
    BY <2>1, <2>2, FS_RemoveElement, FS_CardinalityType, Zenon
<1>3. PICK m \in Below : m + 1 \notin Below
  <2> SUFFICES ASSUME \A m \in Below : m + 1 \in Below PROVE FALSE
    OBVIOUS
  <2> DEFINE Successor == [m \in Below |-> m + 1]
  <2>1. Successor \in Injection(Below, Below \ {0})
    BY DEF Injection, IsInjective
  <2> HIDE DEF Successor, Below
  <2>2. Cardinality(Below) <= Cardinality(Below \ {0})
    BY <2>1, <1>2, FS_Injection, Zenon
  <2> QED
    BY <1>2, <2>2
<1>4. PICK n \in S : ~(m + 1 <= n)
  BY <1>3
<1> QED
  BY <1>3, <1>4

(* First is one of the names, and of those of its board none has a smaller *)
(* counter.                                                                *)
LEMMA FirstIsFirst ==
  ASSUME NEW names, names \subseteq Nat \X Nat, names # {}
  PROVE  /\ First(names) \in names
         /\ \A n \in names : n[1] = First(names)[1] => First(names)[2] <= n[2]
<1>1. PICK m \in names : \A n \in names : m[1] <= n[1]
  <2> DEFINE S == {n[1] : n \in names}
  <2>1. S \subseteq Nat /\ S # {}
    OBVIOUS
  <2>2. PICK b \in S : \A n \in S : b <= n
    <3> HIDE DEF S
    <3> QED BY <2>1, Least
  <2> QED
    BY <2>2
<1>2. PICK f \in names : f[1] = m[1] /\ \A n \in names : n[1] = m[1] => f[2] <= n[2]
  <2> DEFINE S == {n[2] : n \in {o \in names : o[1] = m[1]}}
  <2>1. S \subseteq Nat /\ S # {}
    OBVIOUS
  <2>2. PICK c \in S : \A n \in S : c <= n
    <3> HIDE DEF S
    <3> QED BY <2>1, Least
  <2> QED
    BY <2>2
<1>3. \A n \in names \ {f} : Before(f, n)
  <2> TAKE n \in names \ {f}
  <2>1. f \in Nat \X Nat /\ n \in Nat \X Nat /\ f # n
    OBVIOUS
  <2>2. f[1] <= n[1] /\ (n[1] = f[1] => f[2] <= n[2])
    BY <1>1, <1>2
  <2>3. f[1] # n[1] \/ f[2] # n[2]
    BY <2>1
  <2> QED
    BY <2>1, <2>2, <2>3 DEF Before
<1>4. First(names) \in names /\ \A n \in names \ {First(names)} : Before(First(names), n)
  BY <1>3 DEF First
<1> DEFINE g == First(names)
<1>5. ASSUME NEW n \in names, n[1] = g[1] PROVE g[2] <= n[2]
  <2>1. g \in Nat \X Nat /\ n \in Nat \X Nat
    BY <1>4
  <2>2. CASE n = g
    BY <2>1, <2>2
  <2>3. CASE n # g
    <3>1. Before(g, n)
      BY <1>4, <2>3
    <3> QED
      BY <3>1, <2>1, <1>5 DEF Before
  <2> QED
    BY <2>2, <2>3
<1> QED
  BY <1>4, <1>5

-----------------------------------------------------------------------------
(* What is kept *)

LEMMA KeptInit == SpoolInit => Kept
<1> SUFFICES ASSUME SpoolInit PROVE Kept
  OBVIOUS
<1> USE DEF SpoolInit
<1>1. Types
  BY SpoolAssumption DEF Types, Files, SavedFile, Boards
<1>2. Numbered /\ Stored /\ NothingVanishes
  BY NoElements DEF Numbered, Stored, NothingVanishes, Files
<1>3. InWork
  BY DEF InWork, Off
<1> QED
  BY <1>1, <1>2, <1>3 DEF Kept

(* A step that leaves the directory and its history alone. *)
files == <<run, counter, raw, saved, converted>>
LEMMA SameFiles ==
  ASSUME Kept, UNCHANGED files, starts' \in Nat
  PROVE  Types' /\ Numbered' /\ Stored' /\ NothingVanishes'
<1> USE DEF files
<1>1. Types'
  BY DEF Kept, Types, Files
<1>2. Numbered'
  BY DEF Kept, Numbered, Elements
<1>3. Stored'
  BY DEF Kept, Stored, Elements, Files
<1>4. NothingVanishes'
  BY DEF Kept, NothingVanishes, Elements, Files
<1> QED
  BY <1>1, <1>2, <1>3, <1>4

(* The file that a thread renames is new, and those of its name are older. *)
LEMMA Renamed ==
  ASSUME Kept, NEW b \in Boards, RenameTmp(b)
  PROVE  /\ b \in Nat
         /\ Name(b) \in Boards \X Nat
         /\ File(b) \in SavedFile /\ File(b).name = Name(b) /\ File(b).run = run
         /\ \A f \in Elements(saved) : f.name = Name(b) => f.run < run
         /\ Elements(saved') = Elements(saved) \cup {File(b)}
         /\ Files' = Files \cup {Name(b)}
         /\ raw' \in [Files' -> SavedFile]
         /\ raw'[Name(b)] = File(b)
         /\ \A n \in Files \ {Name(b)} : raw'[n] = raw[n]
<1>1. Types /\ Numbered
  BY DEF Kept
<1>2. b \in Nat
  BY SpoolAssumption DEF Boards
<1>3. Name(b) \in Boards \X Nat
  BY <1>1 DEF Name, Types
<1>4. File(b) \in SavedFile /\ File(b).name = Name(b) /\ File(b).run = run
  BY <1>1, <1>2, <1>3 DEF File, SavedFile, Types, Name
<1>5. ASSUME NEW f \in Elements(saved), f.name = Name(b) PROVE f.run < run
  <2>1. f \in SavedFile
    BY <1>1, ElementType DEF Types
  <2>2. f.run <= run /\ (f.run = run => f.name[2] < counter[f.name[1]])
    BY <1>1 DEF Numbered
  <2>3. f.name[1] = b /\ f.name[2] = counter[b]
    BY <1>5 DEF Name
  <2> QED
    BY <1>1, <2>1, <2>2, <2>3 DEF Types, SavedFile
<1>6. Elements(saved') = Elements(saved) \cup {File(b)}
  BY <1>1, ElementsOfAppend DEF Types, RenameTmp
<1>7. raw' = [n \in Files \cup {Name(b)} |-> IF n = Name(b) THEN File(b) ELSE raw[n]]
  BY DEF RenameTmp
<1>8. Files' = Files \cup {Name(b)}
  BY <1>7 DEF Files
<1>9. raw' \in [Files' -> SavedFile]
  BY <1>1, <1>4, <1>7, <1>8 DEF Types
<1> QED
  BY <1>2, <1>3, <1>4, <1>5, <1>6, <1>7, <1>8, <1>9

LEMMA KeptRename ==
  ASSUME Kept, NEW b \in Boards, RenameTmp(b)
  PROVE  Kept'
<1>1. /\ Name(b) \in Boards \X Nat
      /\ File(b) \in SavedFile /\ File(b).name = Name(b) /\ File(b).run = run
      /\ \A f \in Elements(saved) : f.name = Name(b) => f.run < run
      /\ Elements(saved') = Elements(saved) \cup {File(b)}
      /\ Files' = Files \cup {Name(b)}
      /\ raw' \in [Files' -> SavedFile]
      /\ raw'[Name(b)] = File(b)
      /\ \A n \in Files \ {Name(b)} : raw'[n] = raw[n]
  BY Renamed
<1>2. Types /\ Numbered /\ Stored /\ InWork /\ NothingVanishes
  BY DEF Kept
<1>3. /\ UNCHANGED <<run, conv, starts, converted>>
      /\ counter' = [counter EXCEPT ![b] = @ + 1]
      /\ saved' = Append(saved, File(b))
  BY DEF RenameTmp
<1>4. Types'
  BY <1>1, <1>2, <1>3 DEF Types
<1>5. Numbered'
  <2> SUFFICES ASSUME NEW f \in Elements(saved')
               PROVE  /\ f.name[1] \in Boards
                      /\ f.run <= run
                      /\ f.run = run => f.name[2] < counter'[f.name[1]]
    BY <1>3 DEF Numbered, Elements
  <2>1. CASE f \in Elements(saved)
    <3>1. f \in SavedFile
      BY <1>2, <2>1, ElementType DEF Types
    <3>2. /\ f.name[1] \in Boards
          /\ f.run <= run
          /\ f.run = run => f.name[2] < counter[f.name[1]]
      BY <1>2, <2>1 DEF Numbered
    <3> QED
      BY <1>2, <1>3, <3>1, <3>2 DEF Types, SavedFile
  <2>2. CASE f = File(b)
    BY <1>1, <1>2, <1>3, <2>2 DEF Types, Name
  <2> QED
    BY <1>1, <2>1, <2>2
<1>6. Stored'
  <2>1. \A n \in Files' : raw'[n] \in Elements(saved') /\ raw'[n].name = n
    BY <1>1, <1>2 DEF Stored
  <2>2. Elements(converted)' = Elements(converted) /\ Elements(saved)' = Elements(saved')
    BY <1>3 DEF Elements
  <2>3. Elements(converted)' \subseteq Elements(saved)'
    BY <1>1, <1>2, <2>2 DEF Stored
  <2> QED
    BY <2>1, <2>2, <2>3 DEF Stored, Files
<1>7. InWork'
  <2>1. Elements(saved') = Elements(saved)' /\ Elements(converted)' = Elements(converted)
    BY <1>3 DEF Elements
  <2> QED
    BY <1>1, <1>2, <1>3, <2>1 DEF InWork
<1>8. NothingVanishes'
  <2> SUFFICES ASSUME NEW f \in Elements(saved')
               PROVE  \/ f.name \in Files' /\ raw'[f.name] = f
                      \/ f \in Elements(converted)
                      \/ \E g \in Elements(saved') : g.name = f.name /\ g.run # f.run
    BY <1>3 DEF NothingVanishes, Files, Elements
  <2>1. CASE f = File(b)
    BY <1>1, <2>1
  <2>2. CASE f \in Elements(saved) /\ f.name = Name(b)
    <3>1. f.run < run /\ File(b).run = run /\ File(b).name = f.name
      BY <1>1, <2>2
    <3>2. f \in SavedFile /\ run \in Nat
      BY <1>2, <2>2, ElementType DEF Types
    <3>3. f.run \in Nat
      BY <3>2 DEF SavedFile
    <3> QED
      BY <1>1, <3>1, <3>2, <3>3
  <2>3. CASE f \in Elements(saved) /\ f.name # Name(b)
    <3>1. \/ f.name \in Files /\ raw[f.name] = f
          \/ f \in Elements(converted)
          \/ \E g \in Elements(saved) : g.name = f.name /\ g.run # f.run
      BY <1>2, <2>3 DEF NothingVanishes
    <3> QED
      BY <1>1, <2>3, <3>1
  <2> QED
    BY <1>1, <2>1, <2>2, <2>3
<1> QED
  BY <1>4, <1>5, <1>6, <1>7, <1>8 DEF Kept

LEMMA KeptRemove ==
  ASSUME Kept, Remove
  PROVE  Kept'
<1>1. Types /\ Numbered /\ Stored /\ InWork /\ NothingVanishes
  BY DEF Kept
<1>2. /\ UNCHANGED <<run, counter, starts, saved, converted>>
      /\ conv.pc = "remove"
      /\ raw' = [n \in Files \ {conv.name} |-> raw[n]]
      /\ conv'.pc \in {"loop", "rescan"}
  BY DEF Remove, measure, Loop
<1>3. Files' = Files \ {conv.name}
  BY <1>2 DEF Files
<1>4. Types'
  BY <1>1, <1>2, <1>3 DEF Types
<1>5. Numbered'
  BY <1>1, <1>2 DEF Numbered, Elements
<1>6. Stored'
  <2>1. \A n \in Files' : raw'[n] \in Elements(saved) /\ raw'[n].name = n
    BY <1>1, <1>2, <1>3 DEF Stored
  <2>2. Elements(converted)' = Elements(converted) /\ Elements(saved)' = Elements(saved)
    BY <1>2 DEF Elements
  <2> QED
    BY <1>1, <2>1, <2>2 DEF Stored, Files
<1>7. InWork'
  BY <1>2 DEF InWork
<1>8. NothingVanishes'
  <2> SUFFICES ASSUME NEW f \in Elements(saved)
               PROVE  \/ f.name \in Files' /\ raw'[f.name] = f
                      \/ f \in Elements(converted)
                      \/ \E g \in Elements(saved) : g.name = f.name /\ g.run # f.run
    BY <1>2 DEF NothingVanishes, Files, Elements
  <2>1. \/ f.name \in Files /\ raw[f.name] = f
        \/ f \in Elements(converted)
        \/ \E g \in Elements(saved) : g.name = f.name /\ g.run # f.run
    BY <1>1 DEF NothingVanishes
  <2>2. CASE f.name = conv.name
    <3>1. conv.file \in Elements(saved) /\ conv.file \in Elements(converted) /\ conv.file.name = f.name
      BY <1>1, <1>2, <2>2 DEF InWork
    <3>2. conv.file \in SavedFile /\ f \in SavedFile
      BY <1>1, <3>1, ElementType DEF Types
    <3>3. conv.file.run # f.run \/ conv.file = f
      BY <3>1, <3>2 DEF SavedFile
    <3> QED
      BY <3>1, <3>3
  <2>3. CASE f.name # conv.name
    BY <1>2, <1>3, <2>1, <2>3
  <2> QED
    BY <2>2, <2>3
<1> QED
  BY <1>4, <1>5, <1>6, <1>7, <1>8 DEF Kept

LEMMA KeptConvert ==
  ASSUME Kept, Convert
  PROVE  Kept'
<1>1. Types /\ Numbered /\ Stored /\ InWork /\ NothingVanishes
  BY DEF Kept
<1>2. /\ UNCHANGED <<run, counter, starts, raw, saved>>
      /\ conv.pc = "convert"
      /\ conv' = At("remove", conv.name, conv.file)
      /\ converted' = Append(converted, conv.file)
  BY DEF Convert, measure
<1>3. conv.file \in Elements(saved) /\ conv.file.name = conv.name /\ conv.file \in SavedFile
  BY <1>1, <1>2, ElementType DEF InWork, Types
<1>4. Elements(converted') = Elements(converted) \cup {conv.file}
  BY <1>1, <1>2, ElementsOfAppend DEF Types
<1>5. Types'
  BY <1>1, <1>2, <1>3 DEF Types, Files
<1>6. Numbered'
  BY <1>1, <1>2 DEF Numbered, Elements
<1>7. Stored'
  <2>1. Elements(converted') \subseteq Elements(saved)
    BY <1>1, <1>3, <1>4 DEF Stored
  <2> QED
    BY <1>1, <1>2, <2>1 DEF Stored, Files, Elements
<1>8. InWork'
  <2>1. conv'.pc = "remove" /\ conv'.name = conv.name /\ conv'.file = conv.file
    BY <1>2 DEF At
  <2>2. conv'.file \in Elements(saved) /\ conv'.file \in Elements(converted')
    BY <1>3, <1>4, <2>1
  <2> QED
    BY <1>2, <1>3, <2>1, <2>2 DEF InWork, Elements
<1>9. NothingVanishes'
  <2> SUFFICES ASSUME NEW f \in Elements(saved)
               PROVE  \/ f.name \in Files /\ raw[f.name] = f
                      \/ f \in Elements(converted')
                      \/ \E g \in Elements(saved) : g.name = f.name /\ g.run # f.run
    BY <1>2 DEF NothingVanishes, Files, Elements
  <2> QED
    BY <1>1, <1>4 DEF NothingVanishes
<1> QED
  BY <1>5, <1>6, <1>7, <1>8, <1>9 DEF Kept

(* The new run has saved nothing yet. *)
LEMMA KeptStart ==
  ASSUME Kept, MeasureStarts
  PROVE  Kept'
<1>1. Types /\ Numbered /\ Stored /\ InWork /\ NothingVanishes
  BY DEF Kept
<1>2. /\ UNCHANGED <<starts, raw, conv, saved, converted>>
      /\ run' = run + 1
      /\ counter' = [b \in Boards |-> 0]
  BY DEF MeasureStarts
<1>3. Types'
  BY <1>1, <1>2 DEF Types, Files
<1>4. Numbered'
  <2> SUFFICES ASSUME NEW f \in Elements(saved)
               PROVE  f.name[1] \in Boards /\ f.run <= run' /\ f.run # run'
    BY <1>2 DEF Numbered, Elements
  <2>1. f \in SavedFile /\ run \in Nat
    BY <1>1, ElementType DEF Types
  <2>2. f.run \in Nat
    BY <2>1 DEF SavedFile
  <2>3. f.name[1] \in Boards /\ f.run <= run
    BY <1>1 DEF Numbered
  <2> QED
    BY <1>2, <2>1, <2>2, <2>3
<1>5. Stored' /\ InWork' /\ NothingVanishes'
  BY <1>1, <1>2 DEF Stored, InWork, NothingVanishes, Files, Elements
<1> QED
  BY <1>3, <1>4, <1>5 DEF Kept

LEMMA KeptNext == Kept /\ [SpoolNext]_vars => Kept'
<1> SUFFICES ASSUME Kept, [SpoolNext]_vars PROVE Kept'
  OBVIOUS
<1>1. InWork /\ Types
  BY DEF Kept
<1>2. ASSUME UNCHANGED files, starts' \in Nat, InWork' PROVE Kept'
  BY <1>2, SameFiles DEF Kept
<1>3. CASE MeasureEnds \/ Signal \/ (\E b \in Boards : WriteTmp(b)) \/ UNCHANGED vars
  <2>1. UNCHANGED <<files, starts, conv>>
    BY <1>3 DEF MeasureEnds, Signal, WriteTmp, vars, measure, files
  <2>2. UNCHANGED files /\ starts' \in Nat
    BY <1>1, <2>1 DEF Types
  <2>3. InWork'
    BY <1>1, <2>1 DEF InWork, files, Files, Elements
  <2> QED
    BY <1>2, <2>2, <2>3
<1>4. CASE ConvertStarts \/ ReadStop \/ Leave \/ Rescan \/ ConvertFails
  <2>1. UNCHANGED files /\ conv'.pc \in {"loop", "off"}
    BY <1>4 DEF ConvertStarts, ReadStop, Leave, Rescan, ConvertFails, measure, files, Loop, Off
  <2>2. starts' \in Nat
    <3>1. starts' = starts + 1 \/ starts' = starts
      BY <1>4 DEF ConvertStarts, ReadStop, Leave, Rescan, ConvertFails
    <3> QED
      BY <1>1, <3>1 DEF Types
  <2>3. InWork'
    BY <2>1 DEF InWork
  <2> QED
    BY <1>2, <2>1, <2>2, <2>3
<1>5. CASE Scan
  <2>1. UNCHANGED <<files, starts>>
    BY <1>5 DEF Scan, measure, files
  <2>2. Files \subseteq Nat \X Nat
    BY <1>1, SpoolAssumption DEF Types, Boards
  <2>3. conv'.pc = "empty" \/ (conv'.pc = "open" /\ conv'.name \in Files)
    <3>1. CASE Files = {}
      BY <1>5, <3>1 DEF Scan
    <3>2. CASE Files # {}
      BY <1>5, <2>2, <3>2, FirstIsFirst DEF Scan
    <3> QED
      BY <3>1, <3>2
  <2>4. InWork'
    BY <2>1, <2>3 DEF InWork, files, Files
  <2> QED
    BY <1>1, <1>2, <2>1, <2>4 DEF Types
<1>6. CASE Open
  <2>1. UNCHANGED <<files, starts>>
    BY <1>6 DEF Open, measure, files
  <2>2. conv.name \in Files /\ conv'.pc = "convert" /\ conv'.name = conv.name /\ conv'.file = raw[conv.name]
    BY <1>1, <1>6 DEF Open, InWork, At
  <2>3. raw[conv.name] \in Elements(saved) /\ raw[conv.name].name = conv.name
    BY <2>2 DEF Kept, Stored
  <2>4. InWork'
    BY <2>1, <2>2, <2>3 DEF InWork, files, Elements
  <2> QED
    BY <1>1, <1>2, <2>1, <2>4 DEF Types
<1> QED
  BY <1>3, <1>4, <1>5, <1>6, KeptStart, KeptRename, KeptRemove, KeptConvert
     DEF SpoolNext, ConvertSteps

(* For every number of boards, files and starts, no saved file vanishes    *)
(* unless another run used its name (hpc_threads.c 262, hpc_convert.c 614).*)
THEOREM NoFileVanishes == SpoolSpec => []NothingVanishes
<1>1. SpoolSpec => []Kept
  BY KeptInit, KeptNext, PTL DEF SpoolSpec
<1>2. Kept => NothingVanishes
  BY DEF Kept
<1> QED
  BY <1>1, <1>2, PTL

-----------------------------------------------------------------------------
(* Nothing is put out twice *)

LEMMA FreshInit == SpoolInit => Fresh
BY NoElements DEF SpoolInit, Fresh, OnceUnlessFailed, Off

LEMMA FreshRename ==
  ASSUME Kept, Fresh, NEW b \in Boards, RenameTmp(b)
  PROVE  Fresh'
<1>1. /\ UNCHANGED <<starts, conv, converted>>
      /\ Elements(converted)' = Elements(converted)
  BY DEF RenameTmp, Elements
<1>2. /\ \A f \in Elements(saved) : f.name = Name(b) => f.run < run
      /\ File(b).run = run /\ File(b).name = Name(b)
      /\ Files' = Files \cup {Name(b)}
      /\ raw'[Name(b)] = File(b)
      /\ \A n \in Files \ {Name(b)} : raw'[n] = raw[n]
  BY Renamed
<1>3. Elements(converted) \subseteq Elements(saved) /\ run \in Nat
  BY DEF Kept, Stored, Types
<1>4. ASSUME NEW n \in Files', starts = 1, conv # Off, raw'[n] \in Elements(converted)
      PROVE  conv.pc = "remove" /\ raw'[n] = conv.file
  <2>1. n # Name(b)
    <3> SUFFICES ASSUME n = Name(b) PROVE FALSE
      OBVIOUS
    <3>1. File(b) \in Elements(saved)
      BY <1>2, <1>3, <1>4
    <3> QED
      BY <1>2, <1>3, <3>1
  <2> QED
    BY <1>2, <1>4, <2>1 DEF Fresh
<1> QED
  BY <1>1, <1>4 DEF Fresh, OnceUnlessFailed, Files

LEMMA FreshRemove ==
  ASSUME Kept, Fresh, Remove
  PROVE  Fresh'
<1>1. /\ UNCHANGED <<starts, converted>>
      /\ Elements(converted)' = Elements(converted)
      /\ conv.pc = "remove" /\ conv'.pc \in {"loop", "rescan"}
      /\ Files' = Files \ {conv.name}
      /\ \A n \in Files' : raw'[n] = raw[n]
  BY DEF Remove, Elements, Files, Loop
<1>2. conv # Off
  BY <1>1 DEF Off
<1>3. ASSUME NEW n \in Files', starts = 1 PROVE raw[n] \notin Elements(converted)
  <2>1. raw[n].name = n /\ conv.file.name = conv.name /\ n # conv.name
    BY <1>1 DEF Kept, Stored, InWork
  <2> QED
    BY <1>1, <1>2, <1>3, <2>1 DEF Fresh
<1> QED
  BY <1>1, <1>2, <1>3 DEF Fresh, OnceUnlessFailed, Files

LEMMA FreshConvert ==
  ASSUME Kept, Fresh, Convert
  PROVE  Fresh'
<1>1. /\ UNCHANGED <<starts, raw>>
      /\ conv.pc = "convert" /\ conv'.pc = "remove" /\ conv'.file = conv.file
      /\ converted' = Append(converted, conv.file)
  BY DEF Convert, At
<1>2. conv # Off /\ converted \in Seq(SavedFile)
  BY <1>1 DEF Off, Kept, Types
<1>3. Elements(converted') = Elements(converted) \cup {conv.file}
  BY <1>1, <1>2, ElementsOfAppend
<1>4. ASSUME starts = 1, NEW n \in Files, raw[n] \in Elements(converted') PROVE raw[n] = conv.file
  BY <1>1, <1>2, <1>3, <1>4 DEF Fresh
<1>5. ASSUME starts = 1, NEW i \in DOMAIN converted', NEW j \in DOMAIN converted',
             converted'[i] = converted'[j]
      PROVE  i = j
  <2>1. conv.file \notin Elements(converted)
    BY <1>1, <1>5 DEF Fresh
  <2>2. ASSUME NEW k \in DOMAIN converted'
        PROVE  \/ k \in DOMAIN converted /\ converted'[k] = converted[k]
               \/ k = Len(converted) + 1 /\ converted'[k] = conv.file
    BY <1>1, <1>2
  <2>3. \A k, l \in DOMAIN converted : converted[k] = converted[l] => k = l
    BY <1>5 DEF Fresh, OnceUnlessFailed
  <2>4. \A k \in DOMAIN converted : converted[k] # conv.file
    BY <2>1 DEF Elements
  <2> QED
    BY <1>5, <2>2, <2>3, <2>4
<1>6. Elements(converted)' = Elements(converted')
  BY DEF Elements
<1>7. starts # 0
  BY <1>2 DEF Fresh
<1> QED
  BY <1>1, <1>4, <1>5, <1>6, <1>7 DEF Fresh, OnceUnlessFailed, Files

LEMMA FreshNext == Kept /\ Fresh /\ [SpoolNext]_vars => Fresh'
<1> SUFFICES ASSUME Kept, Fresh, [SpoolNext]_vars PROVE Fresh'
  OBVIOUS
<1>1. CASE \/ MeasureStarts \/ MeasureEnds \/ Signal \/ (\E b \in Boards : WriteTmp(b))
           \/ UNCHANGED vars
  <2>1. UNCHANGED <<starts, conv, raw, converted>>
    BY <1>1 DEF MeasureStarts, MeasureEnds, Signal, WriteTmp, vars
  <2> QED
    BY <2>1 DEF Fresh, OnceUnlessFailed, Files, Elements
<1>2. CASE ConvertStarts
  <2>1. /\ starts' = starts + 1
        /\ conv' = Loop("run", FALSE)
        /\ UNCHANGED <<raw, converted>>
        /\ starts \in Nat
    BY <1>2 DEF ConvertStarts, Kept, Types
  <2>2. conv'.pc = "loop"
    BY <2>1 DEF Loop
  <2>3. starts' = 1 => converted = <<>> /\ Elements(converted)' = {}
    BY <2>1, NoElements DEF Fresh, Elements
  <2>4. starts' # 0
    BY <2>1
  <2>5. OnceUnlessFailed'
    <3>1. starts' = 1 => converted' = <<>>
      BY <2>1, <2>3
    <3> QED
      BY <3>1 DEF OnceUnlessFailed
  <2> QED
    BY <2>2, <2>3, <2>4, <2>5 DEF Fresh
<1>3. CASE ReadStop \/ Leave \/ Rescan \/ Scan
  <2>1. /\ UNCHANGED <<starts, raw, converted>>
        /\ conv.pc \in {"empty", "loop", "rescan"}
        /\ conv'.pc \in {"loop", "off", "open", "empty"}
    BY <1>3 DEF ReadStop, Leave, Rescan, Scan, Looping, Loop, Off
  <2>2. conv # Off
    BY <2>1 DEF Off
  <2> QED
    BY <2>1, <2>2 DEF Fresh, OnceUnlessFailed, Files, Elements
<1>4. CASE ConvertFails
  <2>1. UNCHANGED <<starts, raw, converted>> /\ conv # Off /\ conv' = Off
    BY <1>4 DEF ConvertFails
  <2>2. conv'.pc = "off"
    BY <2>1 DEF Off
  <2> QED
    BY <2>1, <2>2 DEF Fresh, OnceUnlessFailed, Files, Elements
<1>5. CASE Open
  <2>1. /\ UNCHANGED <<starts, raw, converted>>
        /\ conv.pc = "open" /\ conv'.pc = "convert" /\ conv'.file = raw[conv.name]
        /\ conv.name \in Files
    BY <1>5 DEF Open, At, Kept, InWork
  <2>2. conv # Off
    BY <2>1 DEF Off
  <2>3. starts = 1 => \A n \in Files : raw[n] \notin Elements(converted)
    BY <2>1, <2>2 DEF Fresh
  <2>4. Elements(converted)' = Elements(converted)
    BY <2>1 DEF Elements
  <2> QED
    BY <2>1, <2>2, <2>3, <2>4 DEF Fresh, OnceUnlessFailed, Files
<1> QED
  BY <1>1, <1>2, <1>3, <1>4, <1>5, FreshRename, FreshRemove, FreshConvert
     DEF SpoolNext, ConvertSteps

(* For every number of boards, files and starts of the measurement, a      *)
(* conversion program puts no file out twice in its first run              *)
(* (hpc_convert.c 397-628).                                                *)
THEOREM NothingTwice == SpoolSpec => []OnceUnlessFailed
<1>1. SpoolSpec => [](Kept /\ Fresh)
  BY KeptInit, KeptNext, FreshInit, FreshNext, PTL DEF SpoolSpec
<1>2. Fresh => OnceUnlessFailed
  BY DEF Fresh
<1> QED
  BY <1>1, <1>2, PTL

-----------------------------------------------------------------------------
(* The files of one board are converted in order *)

LEMMA OrderedInit == SpoolInit => Ordered
<1> SUFFICES ASSUME SpoolInit PROVE Ordered
  OBVIOUS
<1>1. converted = <<>> /\ conv.pc = "off"
  BY DEF SpoolInit, Off
<1> QED
  BY <1>1, NoElements DEF Ordered, BoardOrder

(* A file that was not the first of its name does not become it. *)
LEMMA StillPrecedes ==
  ASSUME Elements(saved) \subseteq Elements(saved)'
  PROVE  \A f, g : Precedes(f, g) => Precedes(f, g)'
BY DEF Precedes, Original

LEMMA OrderedRename ==
  ASSUME Kept, Ordered, NEW b \in Boards, RenameTmp(b)
  PROVE  Ordered'
<1>1. /\ UNCHANGED <<conv, converted>>
      /\ Elements(converted)' = Elements(converted)
      /\ Elements(saved)' = Elements(saved')
  BY DEF RenameTmp, Elements
<1>2. /\ \A f \in Elements(saved) : f.name = Name(b) => f.run < run
      /\ File(b).run = run /\ File(b).name = Name(b)
      /\ Elements(saved') = Elements(saved) \cup {File(b)}
      /\ Files' = Files \cup {Name(b)}
      /\ raw'[Name(b)] = File(b)
      /\ \A n \in Files \ {Name(b)} : raw'[n] = raw[n]
  BY Renamed
<1>3. \A f, g : Precedes(f, g) => Precedes(f, g)'
  BY <1>1, <1>2, StillPrecedes
<1>4. ASSUME NEW f \in Elements(saved) PROVE Precedes(f, File(b))
  <2>1. f.run = run => f.name[2] < counter[f.name[1]]
    BY DEF Kept, Numbered
  <2>2. f \in SavedFile /\ counter \in [Boards -> Nat]
    BY ElementType DEF Kept, Types
  <2>3. File(b).name[1] = b /\ File(b).name[2] = counter[b]
    BY <1>2 DEF Name
  <2>4. f.name[2] \in Nat /\ counter[b] \in Nat
    BY <2>2 DEF SavedFile
  <2> QED
    BY <1>2, <2>1, <2>3, <2>4 DEF Precedes
<1>5. ASSUME NEW f \in Elements(saved), \A n \in Files : Precedes(f, raw[n]),
             NEW n \in Files'
      PROVE  Precedes(f, raw'[n])
  BY <1>2, <1>4, <1>5
<1>6. ASSUME NEW f \in Elements(saved), \A n \in Files : Precedes(f, raw[n])
      PROVE  \A n \in Files' : Precedes(f, raw[n])'
  <2> TAKE n \in Files'
  <2> DEFINE g == raw'[n]
  <2>1. Precedes(f, g)
    BY <1>5, <1>6
  <2>2. f.run = g.run /\ f.name[1] = g.name[1] /\ Original(f)' => f.name[2] <= g.name[2]
    BY <1>1, <1>2, <2>1 DEF Precedes, Original
  <2> QED
    BY <2>2 DEF Precedes
<1>7. ASSUME NEW f \in Elements(converted) PROVE \A n \in Files' : Precedes(f, raw[n])'
  <2>1. f \in Elements(saved) /\ \A n \in Files : Precedes(f, raw[n])
    BY DEF Kept, Stored, Ordered
  <2> QED
    BY <1>6, <2>1
<1>8. ASSUME conv.pc = "open" PROVE \A n \in Files' : Precedes(raw[conv.name], raw[n])'
  <2> DEFINE f == raw[conv.name]
  <2>1. f \in Elements(saved) /\ f.name = conv.name /\ conv.name \in Files
    BY <1>8 DEF Kept, Stored, InWork
  <2>2. CASE conv.name = Name(b)
    <3>1. f.run < run
      BY <1>2, <2>1, <2>2
    <3>2. raw'[conv.name] = File(b) /\ f \in Elements(saved)' /\ f.name = File(b).name /\ f.run < File(b).run
      BY <1>1, <1>2, <2>1, <2>2, <3>1
    <3>3. ~Original(raw[conv.name])'
      BY <1>1, <3>2 DEF Original
    <3> QED
      BY <3>3 DEF Precedes
  <2>3. CASE conv.name # Name(b)
    <3>1. raw'[conv.name] = f
      BY <1>2, <2>1, <2>3
    <3>2. \A n \in Files : Precedes(f, raw[n])
      BY <1>8 DEF Ordered
    <3>3. PICK e \in Elements(saved) : e = f
      BY <2>1
    <3>4. \A n \in Files' : Precedes(e, raw[n])'
      BY <1>6, <3>2, <3>3
    <3> QED
      BY <1>1, <3>1, <3>3, <3>4 DEF Precedes, Original
  <2> QED
    BY <2>2, <2>3
<1>9. ASSUME conv.pc = "convert"
      PROVE  /\ \A n \in Files' : Precedes(conv.file, raw[n])'
             /\ \A f \in Elements(converted) : Precedes(f, conv.file)'
  <2>1. /\ conv.file \in Elements(saved)
        /\ \A n \in Files : Precedes(conv.file, raw[n])
        /\ \A f \in Elements(converted) : Precedes(f, conv.file)
    BY <1>9 DEF Kept, InWork, Ordered
  <2>2. PICK e \in Elements(saved) : e = conv.file
    BY <2>1
  <2>3. \A n \in Files' : Precedes(e, raw[n])'
    BY <1>6, <2>1, <2>2
  <2>4. \A f \in Elements(converted) : Precedes(f, e)'
    BY <1>3, <2>1, <2>2
  <2> QED
    BY <1>1, <2>2, <2>3, <2>4 DEF Precedes, Original
<1>10. BoardOrder'
  BY <1>1, <1>2 DEF Ordered, BoardOrder
<1> QED
  BY <1>1, <1>7, <1>8, <1>9, <1>10 DEF Ordered, Files

LEMMA OrderedConvert ==
  ASSUME Kept, Ordered, Convert
  PROVE  Ordered'
<1>1. /\ UNCHANGED <<raw, saved>>
      /\ conv.pc = "convert" /\ conv'.pc = "remove"
      /\ converted' = Append(converted, conv.file)
      /\ converted \in Seq(SavedFile)
      /\ Elements(saved)' = Elements(saved)
  BY DEF Convert, At, Kept, Types, Elements
<1>2. Elements(converted') = Elements(converted) \cup {conv.file}
  BY <1>1, ElementsOfAppend
<1>3. /\ \A n \in Files : Precedes(conv.file, raw[n])
      /\ \A f \in Elements(converted) : Precedes(f, conv.file)
      /\ \A f \in Elements(converted), n \in Files : Precedes(f, raw[n])
  BY <1>1 DEF Ordered
<1>4. \A f \in Elements(converted'), n \in Files : Precedes(f, raw[n])
  BY <1>2, <1>3
<1>5. BoardOrder'
  <2> SUFFICES ASSUME NEW i \in DOMAIN converted', NEW j \in DOMAIN converted', i < j,
                      converted'[i].run = converted'[j].run,
                      converted'[i].name[1] = converted'[j].name[1]
               PROVE  \/ converted'[i].name[2] <= converted'[j].name[2]
                      \/ \E h \in Elements(saved) :
                           h.name = converted'[i].name /\ h.run < converted'[i].run
    BY <1>1 DEF BoardOrder
  <2>1. i \in DOMAIN converted /\ converted'[i] = converted[i]
    BY <1>1
  <2>2. CASE j \in DOMAIN converted
    <3>1. converted'[j] = converted[j]
      BY <1>1, <2>2
    <3> QED
      BY <2>1, <2>2, <3>1 DEF Ordered, BoardOrder
  <2>3. CASE j \notin DOMAIN converted
    <3>1. converted'[j] = conv.file
      BY <1>1, <2>3
    <3>2. Precedes(converted[i], conv.file)
      BY <1>3, <2>1 DEF Elements
    <3> QED
      BY <2>1, <3>1, <3>2 DEF Precedes, Original
  <2> QED
    BY <2>2, <2>3
<1>6. Elements(converted)' = Elements(converted')
  BY DEF Elements
<1> QED
  BY <1>1, <1>4, <1>5, <1>6 DEF Ordered, Precedes, Original, Files

(* A step that puts nothing out and takes nothing up. *)
LEMMA OrderedElse ==
  ASSUME Ordered, UNCHANGED <<saved, converted>>,
         Files' \subseteq Files, \A n \in Files' : raw'[n] = raw[n],
         conv'.pc \notin {"open", "convert"}
  PROVE  Ordered'
<1>1. Elements(saved)' = Elements(saved) /\ Elements(converted)' = Elements(converted)
  BY DEF Elements
<1> QED
  BY <1>1 DEF Ordered, Precedes, Original, BoardOrder, Files

LEMMA OrderedScan ==
  ASSUME Kept, Ordered, Scan
  PROVE  Ordered'
<1>1. UNCHANGED <<raw, saved, converted>>
  BY DEF Scan
<1>2. Elements(saved)' = Elements(saved) /\ Elements(converted)' = Elements(converted) /\ Files' = Files
  BY <1>1 DEF Elements, Files
<1>3. CASE Files = {}
  <2>1. conv'.pc = "empty"
    BY <1>3 DEF Scan
  <2> QED
    BY <1>1, <1>2, <2>1, OrderedElse
<1>4. CASE Files # {}
  <2>1. conv'.pc = "open" /\ conv'.name = First(Files)
    BY <1>4 DEF Scan
  <2>2. Files \subseteq Nat \X Nat
    BY SpoolAssumption DEF Kept, Types, Boards
  <2>3. First(Files) \in Files /\ \A n \in Files : n[1] = First(Files)[1] => First(Files)[2] <= n[2]
    BY <1>4, <2>2, FirstIsFirst
  <2>4. \A n \in Files : Precedes(raw[First(Files)], raw[n])
    BY <2>3 DEF Kept, Stored, Precedes
  <2>5. \A n \in Files' : Precedes(raw[conv.name], raw[n])'
    BY <1>1, <1>2, <2>1, <2>4 DEF Precedes, Original
  <2> QED
    BY <1>1, <1>2, <2>1, <2>5 DEF Ordered, Precedes, Original, BoardOrder
<1> QED
  BY <1>3, <1>4

LEMMA OrderedOpen ==
  ASSUME Kept, Ordered, Open
  PROVE  Ordered'
<1>1. /\ UNCHANGED <<raw, saved, converted>>
      /\ conv.pc = "open" /\ conv'.pc = "convert" /\ conv'.file = raw[conv.name]
      /\ conv.name \in Files
  BY DEF Open, At, Kept, InWork
<1>2. Elements(saved)' = Elements(saved) /\ Elements(converted)' = Elements(converted) /\ Files' = Files
  BY <1>1 DEF Elements, Files
<1>3. /\ \A n \in Files : Precedes(raw[conv.name], raw[n])
      /\ \A f \in Elements(converted) : Precedes(f, raw[conv.name])
  BY <1>1 DEF Ordered
<1> QED
  BY <1>1, <1>2, <1>3 DEF Ordered, Precedes, Original, BoardOrder

LEMMA OrderedNext == Kept /\ Ordered /\ [SpoolNext]_vars => Ordered'
<1> SUFFICES ASSUME Kept, Ordered, [SpoolNext]_vars PROVE Ordered'
  OBVIOUS
<1>1. CASE \/ MeasureStarts \/ MeasureEnds \/ Signal \/ (\E b \in Boards : WriteTmp(b))
           \/ UNCHANGED vars
  <2>1. UNCHANGED <<saved, conv, raw, converted>>
    BY <1>1 DEF MeasureStarts, MeasureEnds, Signal, WriteTmp, vars
  <2>2. Elements(saved)' = Elements(saved) /\ Elements(converted)' = Elements(converted)
    BY <2>1 DEF Elements
  <2> QED
    BY <2>1, <2>2 DEF Ordered, Precedes, Original, BoardOrder, Files
<1>2. CASE ConvertStarts \/ ReadStop \/ Leave \/ Rescan \/ ConvertFails
  <2>1. /\ UNCHANGED <<saved, raw, converted>>
        /\ conv'.pc \in {"loop", "off"}
    BY <1>2 DEF ConvertStarts, ReadStop, Leave, Rescan, ConvertFails, Loop, Off
  <2> QED
    BY <2>1, OrderedElse DEF Files
<1>3. CASE Remove
  <2>1. /\ UNCHANGED <<saved, converted>>
        /\ Files' \subseteq Files /\ \A n \in Files' : raw'[n] = raw[n]
        /\ conv'.pc \in {"loop", "rescan"}
    BY <1>3 DEF Remove, Loop, Files
  <2> QED
    BY <2>1, OrderedElse
<1> QED
  BY <1>1, <1>2, <1>3, OrderedScan, OrderedOpen, OrderedConvert, OrderedRename
     DEF SpoolNext, ConvertSteps

(* For every number of boards, files and starts, the files of one board    *)
(* and run are converted in the order in which they were written, unless a *)
(* name stood for a file of an earlier run (hpc_convert.c 152-177).        *)
THEOREM InOrderOfWriting == SpoolSpec => []BoardOrder
<1>1. SpoolSpec => [](Kept /\ Ordered)
  BY KeptInit, KeptNext, OrderedInit, OrderedNext, PTL DEF SpoolSpec
<1>2. Ordered => BoardOrder
  BY DEF Ordered
<1> QED
  BY <1>1, <1>2, PTL

=============================================================================
