----------------------------- MODULE SaveData_proof ----------------------------
(* Proofs about SaveData, for every set of folders and bookmarks and every bound.   *)
EXTENDS SaveData, SequenceTheorems, TLAPS

----------------------------------------------------------------------------
(* The inductive invariant.                                                        *)

\* No name is twice in an index.
InjectiveIndexes == \A l \in Location : IsInjective(index[l])

\* What the steps of a program know of the folders.
Folders ==
    /\ pc \in Playing \cup Uninstalling => registry \in Location
    /\ pc \in Installing => target \in Location
    /\ pc \in {"relocation", "move", "moveIndex", "delete"} => registry \in Location /\ registry # target
    /\ pc \in Installing \ {"gameData"} => target \in managed
    /\ pc \in {"move", "delete", "un.delete"} => indexes_ = index[registry]

\* What the file of a bookmark should hold: its last save, or what is left of it.
Current(b) == IF b \in spoilt THEN Spoiled ELSE saved[b]

\* Only what was saved exists, and nothing was saved before the first installation.
OnlySaved ==
    /\ \A l \in Location, b \in Bookmark : Current(b) = 0 => file[l][b] = 0
    /\ registry = NoLocation =>
          /\ \A b \in Bookmark : Current(b) = 0
          /\ \A l \in Location : ~Exists(l, System)

\* While files are moved, what was copied is the same in both folders.
Same(f) ==
    /\ file[target][f] = file[registry][f]
    /\ f = System => entries[target] = entries[registry]
MovedSoFar ==
    /\ pc = "move" => \A i \in 1..offset_ : Same(indexes_[i])
    /\ pc = "moveIndex" => \A f \in File : Contains(index[registry], f) => Same(f)

\* The folder that has the saves.
Home == IF Halfway THEN target ELSE registry

\* Neither the game nor the installer died in a bad moment.
Undisturbed ==
    /\ registry # NoLocation
    /\ pc \notin Uninstalling \cup {"uninstalled"}
    /\ faults \cap {"game", "installer"} = {}

\* The saves are complete, and the index lists every file there is.  Without a system
\* file in the folder of the saves there is none elsewhere.
Complete ==
    Undisturbed =>
        /\ \A b \in Bookmark : file[Home][b] = Current(b)
        /\ \A f \in File : Exists(Home, f) =>
              IF pc \in Playing THEN Contains(index_, f)
              ELSE Home \in managed /\ Contains(index[Home], f)
        /\ ~Exists(Home, System) => \A l \in Location : ~Exists(l, System)

\* A folder that is being emptied.
Emptied(l) == pc \in {"delete", "un.delete"} /\ l = registry

\* What an index lists exists.
Real ==
    faults \cap {"save", "installer"} = {} =>
        /\ \A l \in Location, f \in File : ~Emptied(l) /\ Contains(index[l], f) => Exists(l, f)
        /\ pc \in Playing => \A b \in Bookmark : Contains(index_, b) => Exists(registry, b)
        /\ pc \in {"saveIndex", "closeIndex"} => Exists(registry, System)

\* Behind a thumbnail comes the data, and until then the bookmark is spoiled.
HalfWritten == Thumbnails /\ pc \in {"saveData", "copyData"} => writing \subseteq spoilt

\* There are no entries without a system file.  What is enabled exists.
Loadable ==
    /\ \A l \in Location : ~Exists(l, System) => entries[l] = {}
    /\ Undisturbed /\ (Thumbnails \/ "save" \notin faults) =>
          /\ \A b \in entries[Home] : Exists(Home, b)
          /\ pc \in Playing => \A b \in context_ : Exists(registry, b)

\* Without a mishap, what is left to delete is what the uninstaller still has to read.
Left ==
    faults = {} =>
        /\ pc = "un.delete" => \A f \in File : Exists(registry, f) =>
              \E i \in 1..Len(indexes_) - offset_ : indexes_[i] = f
        /\ pc \in {"un.regist", "uninstalled"} => \A f \in File : ~Exists(registry, f)

IInv ==
    /\ TypeOK /\ InjectiveIndexes /\ Folders /\ HalfWritten
    /\ OnlySaved /\ MovedSoFar /\ Complete /\ Real /\ Loadable /\ Left

----------------------------------------------------------------------------
(* Lemmas about indexes.                                                           *)

\* An index that a name is added to is an index that has this name too.
LEMMA AddIndexProperties ==
    ASSUME NEW s \in Seq(File), NEW f \in File
    PROVE  /\ AddIndex(s, f) \in Seq(File)
           /\ IsInjective(s) => IsInjective(AddIndex(s, f))
           /\ \A g : Contains(AddIndex(s, f), g) <=> Contains(s, g) \/ g = f
<1>1. CASE Contains(s, f)
  BY <1>1 DEF AddIndex
<1>2. CASE ~Contains(s, f)
  <2>1. AddIndex(s, f) = Append(s, f)
    BY <1>2 DEF AddIndex
  <2>2. /\ Append(s, f) \in Seq(File)
        /\ Len(Append(s, f)) = Len(s) + 1
        /\ \A i \in 1..Len(s) : Append(s, f)[i] = s[i]
        /\ Append(s, f)[Len(s) + 1] = f
    BY AppendProperties
  <2>3. Len(s) \in Nat /\ DOMAIN s = 1..Len(s)
    BY LenProperties
  <2>4. ASSUME IsInjective(s)
        PROVE  IsInjective(Append(s, f))
    <3>1. DOMAIN Append(s, f) = 1..Len(s) + 1
      BY <2>2, LenProperties
    <3> SUFFICES ASSUME NEW i \in 1..Len(s) + 1, NEW j \in 1..Len(s) + 1,
                        Append(s, f)[i] = Append(s, f)[j]
                 PROVE  i = j
      BY <3>1 DEF IsInjective
    <3>2. CASE i \in 1..Len(s) /\ j \in 1..Len(s)
      BY <2>2, <2>3, <2>4, <3>2 DEF IsInjective
    <3>3. CASE i = Len(s) + 1 /\ j \in 1..Len(s)
      BY <1>2, <2>2, <3>3 DEF Contains
    <3>4. CASE j = Len(s) + 1 /\ i \in 1..Len(s)
      BY <1>2, <2>2, <3>4 DEF Contains
    <3> QED
      BY <2>3, <3>2, <3>3, <3>4
  <2>5. \A g : Contains(Append(s, f), g) <=> Contains(s, g) \/ g = f
    BY <2>2, <2>3 DEF Contains
  <2> QED
    BY <2>1, <2>2, <2>4, <2>5
<1> QED
  BY <1>1, <1>2

\* The empty index.
LEMMA EmptyIndex ==
    /\ <<>> \in Seq(File) /\ Len(<<>>) = 0
    /\ IsInjective(<<>>)
    /\ \A g : ~Contains(<<>>, g)
<1>1. <<>> \in Seq(File) /\ Len(<<>>) = 0
  BY EmptySeq
<1> QED
  BY <1>1 DEF IsInjective, Contains

\* The steps that save the bookmark b, or something over it.
Saving(b) == SaveThumbnail(b) \/ SaveUserData(b) \/ \E c \in Bookmark : CopyThumbnail(c, b)

\* They only add names to the index of the game: b as soon as its file changes, and what
\* exists, or failed to.
LEMMA SavingIndex ==
    ASSUME TypeOK, Folders, NEW b \in Bookmark, Saving(b)
    PROVE  /\ index_' \in Seq(File) /\ IsInjective(index_')
           /\ \A g : Contains(index_, g) => Contains(index_', g)
           /\ Thumbnails \/ SaveUserData(b) => Contains(index_', b)
           /\ \A g \in File : Contains(index_', g) =>
                 Contains(index_, g) \/ Exists(registry, g)' \/ "save" \in faults'
<1>1. /\ registry \in Location /\ registry' = registry
      /\ b \in File /\ index_ \in Seq(File) /\ IsInjective(index_)
  BY DEF Saving, SaveThumbnail, SaveUserData, CopyThumbnail, Folders, Playing, File, TypeOK, MemoryTypes
<1>2. \A s \in Seq(File), f \in File :
         /\ AddIndex(s, f) \in Seq(File)
         /\ IsInjective(s) => IsInjective(AddIndex(s, f))
         /\ \A g : Contains(AddIndex(s, f), g) <=> Contains(s, g) \/ g = f
  BY AddIndexProperties
<1>3. \A n \in Nat \cup {Spoiled} : file' = [file EXCEPT ![registry][b] = n] =>
         /\ file'[registry][b] = n
         /\ \A f \in File : f # b => file'[registry][f] = file[registry][f]
  BY <1>1 DEF TypeOK, DiskTypes
<1>4. Spoils(b) => Exists(registry, b)' /\ \A f \in File : Exists(registry, f) => Exists(registry, f)'
  <2> SUFFICES ASSUME Spoils(b)
               PROVE  Exists(registry, b)' /\ \A f \in File : Exists(registry, f) => Exists(registry, f)'
    OBVIOUS
  <2>1. Spoiled # 0
    BY DEF Spoiled
  <2>2. /\ file'[registry][b] = Spoiled
        /\ \A f \in File : f # b => file'[registry][f] = file[registry][f]
    BY <1>1, <1>3 DEF Spoils
  <2> QED
    BY <1>1, <2>1, <2>2 DEF Exists
<1>5. WriteFails(b) => Exists(registry, b)' \/ "save" \in faults'
  BY <1>1, <1>4 DEF WriteFails, Mishap, Exists
<1>6. WriteData(b) => Exists(registry, b)'
  <2>1. saved[b] + 1 \in Nat /\ saved[b] + 1 # 0
    BY DEF TypeOK, ProgressTypes
  <2> QED
    BY <1>1, <1>3, <2>1 DEF WriteData, Exists
<1>7. CASE SaveThumbnail(b)
  <2>1. CASE Thumbnails
    <3>1. index_' = AddIndex(index_, b)
      BY <1>7, <2>1 DEF SaveThumbnail
    <3>2. Spoils(b) \/ WriteFails(b)
      BY <1>7, <2>1 DEF SaveThumbnail
    <3> QED
      BY <1>1, <1>2, <1>4, <1>5, <3>1, <3>2
  <2>2. CASE ~Thumbnails
    <3>1. index_' = index_
      BY <1>7, <2>2 DEF SaveThumbnail
    <3>2. ~SaveUserData(b)
      BY <1>7 DEF SaveThumbnail, SaveUserData
    <3> QED
      BY <1>1, <2>2, <3>1, <3>2
  <2> QED
    BY <2>1, <2>2
<1>8. CASE SaveUserData(b)
  <2>1. index_' = AddIndex(index_, b) /\ (WriteData(b) \/ WriteFails(b))
    BY <1>8 DEF SaveUserData
  <2> QED
    BY <1>1, <1>2, <1>5, <1>6, <2>1
<1>9. ASSUME NEW c \in Bookmark, CopyThumbnail(c, b)
      PROVE  /\ index_' \in Seq(File) /\ IsInjective(index_')
             /\ \A g : Contains(index_, g) => Contains(index_', g)
             /\ Thumbnails => Contains(index_', b)
             /\ \A g \in File : Contains(index_', g) =>
                   Contains(index_, g) \/ Exists(registry, g)' \/ "save" \in faults'
  <2>1. c \in File /\ Exists(registry, c)
    BY <1>9 DEF CopyThumbnail, File
  <2>2. CASE Thumbnails /\ index_' = AddIndex(AddIndex(index_, b), c) /\ Spoils(b)
    <3>1. Exists(registry, c)' /\ Exists(registry, b)'
      BY <1>4, <2>1, <2>2
    <3>2. /\ AddIndex(index_, b) \in Seq(File) /\ IsInjective(AddIndex(index_, b))
          /\ \A g : Contains(AddIndex(index_, b), g) <=> Contains(index_, g) \/ g = b
      BY <1>1, <1>2
    <3> QED
      BY <1>2, <2>1, <2>2, <3>1, <3>2
  <2>3. CASE Thumbnails /\ index_' = AddIndex(index_, b) /\ WriteFails(b)
    BY <1>1, <1>2, <1>5, <2>3
  <2>4. CASE ~Thumbnails /\ index_' = AddIndex(index_, c) /\ file' = file
    <3>1. Exists(registry, c)'
      BY <1>1, <2>1, <2>4 DEF Exists
    <3> QED
      BY <1>1, <1>2, <2>1, <2>4, <3>1
  <2> QED
    BY <1>9, <2>2, <2>3, <2>4 DEF CopyThumbnail
<1> QED
  BY <1>7, <1>8, <1>9 DEF Saving, SaveThumbnail, SaveUserData, CopyThumbnail

----------------------------------------------------------------------------
(* Types.                                                                          *)

\* In the initial states everything has its type, and no step is under way.
LEMMA InitTypes == Init => TypeOK /\ InjectiveIndexes /\ Folders
<1> SUFFICES ASSUME Init
             PROVE  TypeOK /\ InjectiveIndexes /\ Folders
  OBVIOUS
<1> USE EmptyIndex DEF Init
<1>1. DiskTypes /\ InjectiveIndexes
  BY DEF DiskTypes, InjectiveIndexes
<1>2. MemoryTypes
  BY DEF MemoryTypes
<1>3. ProgressTypes
  BY DEF ProgressTypes
<1>4. Folders
  BY DEF Folders, Playing, Installing, Uninstalling
<1> QED
  BY <1>1, <1>2, <1>3, <1>4 DEF TypeOK

\* What an index lists is a name.
LEMMA LineIsFile ==
    ASSUME TypeOK, NEW i \in 1..Len(indexes_)
    PROVE  indexes_[i] \in File
  BY ElementOfSeq DEF TypeOK, MemoryTypes

\* Every step keeps the types, the indexes without repetition and what the steps know of
\* the folders.
LEMMA TypesStep ==
    ASSUME TypeOK, InjectiveIndexes, Folders, Next \/ UNCHANGED vars
    PROVE  TypeOK' /\ InjectiveIndexes' /\ Folders'
<1> USE DEF TypeOK, history
<1>1. CASE StartGame
  <2>1. registry \in Location
    BY <1>1 DEF StartGame, DiskTypes
  <2>2. LoadIndex \in Seq(File) /\ IsInjective(LoadIndex)
    BY <2>1, EmptyIndex DEF LoadIndex, DiskTypes, InjectiveIndexes
  <2>3. index_' \in Seq(File) /\ IsInjective(index_') /\ context_' \subseteq Bookmark
    BY <1>1, <2>1, <2>2, AddIndexProperties DEF StartGame, DiskTypes, File
  <2>4. DiskTypes' /\ InjectiveIndexes'
    BY <1>1 DEF StartGame, DiskTypes, InjectiveIndexes, disk
  <2>5. MemoryTypes'
    BY <1>1, <2>3 DEF StartGame, MemoryTypes, game, plugin
  <2>6. ProgressTypes'
    BY <1>1 DEF StartGame, ProgressTypes, Playing, Installing, Uninstalling
  <2>7. Folders'
    BY <1>1 DEF StartGame, DiskTypes, Folders, disk, plugin, Playing, Installing, Uninstalling
  <2> QED
    BY <2>4, <2>5, <2>6, <2>7
<1>2. CASE OnWindowClose
  <2>1. DiskTypes' /\ InjectiveIndexes'
    BY <1>2 DEF OnWindowClose, DiskTypes, InjectiveIndexes, disk
  <2>2. MemoryTypes'
    BY <1>2 DEF OnWindowClose, MemoryTypes, game, plugin
  <2>3. ProgressTypes'
    BY <1>2 DEF OnWindowClose, ProgressTypes, Playing, Installing, Uninstalling
  <2>4. Folders'
    BY <1>2
       DEF OnWindowClose, DiskTypes, Folders, disk, plugin, Playing, Installing, Uninstalling
  <2> QED
    BY <2>1, <2>2, <2>3, <2>4
<1>3. CASE SaveSystem
  <2>1. /\ AddIndex(index_, System) \in Seq(File)
        /\ IsInjective(AddIndex(index_, System))
    BY AddIndexProperties DEF MemoryTypes, File
  <2>2. DiskTypes' /\ InjectiveIndexes'
    <3>1. registry \in Location /\ System \in File
      BY <1>3 DEF SaveSystem, DiskTypes, MemoryTypes, Folders, Playing, Uninstalling, File
    <3>2. PICK n \in Nat \cup {Spoiled} : file' = file \/ file' = [file EXCEPT ![registry][System] = n]
      BY <1>3, <3>1 DEF SaveSystem, ProgressTypes
    <3>3. file' = [file EXCEPT ![registry][System] = n] => file' \in [Location -> [File -> Nat \cup {Spoiled}]]
      BY <3>1 DEF DiskTypes
    <3> QED
      BY <1>3, <3>1, <3>2, <3>3 DEF SaveSystem, DiskTypes, MemoryTypes, InjectiveIndexes, disk
  <2>3. MemoryTypes'
    BY <1>3, <2>1 DEF SaveSystem, MemoryTypes, game, plugin
  <2>4. ProgressTypes'
    BY <1>3 DEF SaveSystem, ProgressTypes, Playing, Installing, Uninstalling, Mishap
  <2>5. Folders'
    BY <1>3 DEF SaveSystem, DiskTypes, Folders, disk, plugin, Playing, Installing, Uninstalling
  <2> QED
    BY <2>2, <2>3, <2>4, <2>5
<1>4. CASE SaveIndex
  <2>1. DiskTypes' /\ InjectiveIndexes'
    BY <1>4 DEF SaveIndex, DiskTypes, InjectiveIndexes, disk, MemoryTypes, Folders, Playing
  <2>2. MemoryTypes'
    BY <1>4, EmptyIndex DEF SaveIndex, MemoryTypes, game, plugin, EndGame
  <2>3. ProgressTypes'
    BY <1>4 DEF SaveIndex, ProgressTypes, Playing, Installing, Uninstalling, EndGame
  <2>4. Folders'
    BY <1>4
       DEF SaveIndex, DiskTypes, Folders, disk, plugin, Playing, Installing, Uninstalling,
           EndGame
  <2> QED
    BY <2>1, <2>2, <2>3, <2>4
<1>5. CASE SaveFails
  <2>1. /\ AddIndex(index_, System) \in Seq(File)
        /\ IsInjective(AddIndex(index_, System))
    BY AddIndexProperties DEF MemoryTypes, File
  <2>2. DiskTypes' /\ InjectiveIndexes'
    BY <1>5 DEF SaveFails, DiskTypes, InjectiveIndexes, disk, Folders, Playing, File
  <2>3. MemoryTypes'
    BY <1>5, <2>1 DEF SaveFails, MemoryTypes, game, plugin
  <2>4. ProgressTypes'
    BY <1>5 DEF SaveFails, ProgressTypes, Playing, Installing, Uninstalling, Mishap
  <2>5. Folders'
    BY <1>5 DEF SaveFails, DiskTypes, Folders, disk, plugin, Playing, Installing, Uninstalling
  <2> QED
    BY <2>2, <2>3, <2>4, <2>5
<1>6. CASE KillGame
  <2>1. DiskTypes' /\ InjectiveIndexes'
    BY <1>6 DEF KillGame, DiskTypes, InjectiveIndexes, disk
  <2>2. MemoryTypes'
    BY <1>6, EmptyIndex DEF KillGame, MemoryTypes, game, plugin, EndGame
  <2>3. ProgressTypes'
    BY <1>6 DEF KillGame, ProgressTypes, Playing, Installing, Uninstalling, EndGame, Mishap
  <2>4. Folders'
    BY <1>6
       DEF KillGame, DiskTypes, Folders, disk, plugin, Playing, Installing, Uninstalling,
           EndGame
  <2> QED
    BY <2>1, <2>2, <2>3, <2>4
<1>7. ASSUME NEW b \in Bookmark, Saving(b)
     PROVE  TypeOK' /\ InjectiveIndexes' /\ Folders'
  <2>1. registry \in Location /\ b \in File /\ pc \in Playing
    BY <1>7 DEF Saving, SaveThumbnail, SaveUserData, CopyThumbnail, Folders, Playing, File
  <2>2. index_' \in Seq(File) /\ IsInjective(index_')
    BY <1>7, SavingIndex DEF MemoryTypes
  <2>3. DiskTypes' /\ InjectiveIndexes'
    <3>1. PICK n \in Nat \cup {Spoiled} : file' = file \/ file' = [file EXCEPT ![registry][b] = n]
      <4>1. saved[b] + 1 \in Nat
        BY DEF ProgressTypes
      <4> QED
        BY <1>7, <4>1
           DEF Saving, SaveThumbnail, SaveUserData, CopyThumbnail, WriteFails, WriteData, Spoils
    <3>2. file' = [file EXCEPT ![registry][b] = n] => file' \in [Location -> [File -> Nat \cup {Spoiled}]]
      BY <2>1 DEF DiskTypes
    <3>3. file' \in [Location -> [File -> Nat \cup {Spoiled}]]
      BY <3>1, <3>2 DEF DiskTypes
    <3> QED
      BY <1>7, <3>3
         DEF Saving, SaveThumbnail, SaveUserData, CopyThumbnail, DiskTypes, InjectiveIndexes
  <2>4. MemoryTypes'
    BY <1>7, <2>2 DEF Saving, SaveThumbnail, SaveUserData, CopyThumbnail, MemoryTypes, plugin
  <2>5. ProgressTypes'
    <3>1. saved' \in [Bookmark -> Nat]
      BY <1>7
         DEF Saving, SaveThumbnail, SaveUserData, CopyThumbnail, WriteData, ProgressTypes
    <3>2. /\ spoilt' \subseteq Bookmark
          /\ faults' \subseteq {"game", "save", "installer", "delete"} /\ mishaps' \in Nat
      BY <1>7
         DEF Saving, SaveThumbnail, SaveUserData, CopyThumbnail, WriteFails, WriteData, Spoils,
             Mishap, ProgressTypes
    <3>3. pc' \in Playing /\ runs' = runs
      BY <1>7 DEF Saving, SaveThumbnail, SaveUserData, CopyThumbnail, Playing
    <3> QED
      BY <3>1, <3>2, <3>3 DEF ProgressTypes
  <2>6. Folders'
    BY <1>7, <2>1
       DEF Saving, SaveThumbnail, SaveUserData, CopyThumbnail, DiskTypes, Folders, plugin,
           Playing, Installing, Uninstalling
  <2> QED
    BY <2>3, <2>4, <2>5, <2>6
<1>8. ASSUME NEW b \in Bookmark, Load(b)
     PROVE  TypeOK' /\ InjectiveIndexes' /\ Folders'
  <2>1. /\ AddIndex(index_, b) \in Seq(File)
        /\ IsInjective(AddIndex(index_, b))
    BY AddIndexProperties DEF MemoryTypes, File
  <2>2. DiskTypes' /\ InjectiveIndexes'
    BY <1>8 DEF Load, DiskTypes, InjectiveIndexes, disk, Folders, Playing, File
  <2>3. MemoryTypes'
    BY <1>8, <2>1 DEF Load, MemoryTypes, game, plugin
  <2>4. ProgressTypes'
    BY <1>8 DEF Load, ProgressTypes, Playing, Installing, Uninstalling, Mishap
  <2>5. Folders'
    BY <1>8 DEF Load, DiskTypes, Folders, disk, plugin, Playing, Installing, Uninstalling
  <2> QED
    BY <2>2, <2>3, <2>4, <2>5
<1>9. ASSUME NEW b \in Bookmark, EraseBookmark(b)
     PROVE  TypeOK' /\ InjectiveIndexes' /\ Folders'
  <2>1. DiskTypes' /\ InjectiveIndexes'
    BY <1>9 DEF EraseBookmark, DiskTypes, InjectiveIndexes, disk
  <2>2. MemoryTypes'
    BY <1>9 DEF EraseBookmark, MemoryTypes, game, plugin
  <2>3. ProgressTypes'
    BY <1>9 DEF EraseBookmark, ProgressTypes, Playing, Installing, Uninstalling
  <2>4. Folders'
    BY <1>9
       DEF EraseBookmark, DiskTypes, Folders, disk, plugin, Playing, Installing, Uninstalling
  <2> QED
    BY <2>1, <2>2, <2>3, <2>4
<1>10. ASSUME NEW l \in Location, StartInstaller(l)
     PROVE  TypeOK' /\ InjectiveIndexes' /\ Folders'
  <2>1. DiskTypes' /\ InjectiveIndexes'
    BY <1>10 DEF StartInstaller, DiskTypes, InjectiveIndexes, disk
  <2>2. MemoryTypes'
    BY <1>10 DEF StartInstaller, MemoryTypes, game, plugin
  <2>3. ProgressTypes'
    BY <1>10 DEF StartInstaller, ProgressTypes, Playing, Installing, Uninstalling
  <2>4. Folders'
    BY <1>10
       DEF StartInstaller, DiskTypes, Folders, disk, plugin, Playing, Installing, Uninstalling
  <2> QED
    BY <2>1, <2>2, <2>3, <2>4
<1>11. CASE GameData
  <2>1. DiskTypes' /\ InjectiveIndexes'
    BY <1>11, EmptyIndex DEF GameData, DiskTypes, InjectiveIndexes, disk, Folders, Installing
  <2>2. MemoryTypes'
    BY <1>11 DEF GameData, MemoryTypes, game, plugin
  <2>3. ProgressTypes'
    BY <1>11 DEF GameData, ProgressTypes, Playing, Installing, Uninstalling
  <2>4. Folders'
    BY <1>11 DEF GameData, DiskTypes, Folders, disk, plugin, Playing, Installing, Uninstalling
  <2> QED
    BY <2>1, <2>2, <2>3, <2>4
<1>12. CASE RelocationSaveData
  <2>1. registry \in Location
    BY <1>12 DEF RelocationSaveData, Folders
  <2>2. ASSUME FolderExists(registry)
        PROVE  MemoryTypes'
    <3>1. OpenIndex(registry) /\ UNCHANGED <<index_, context_, writing, target>>
      BY <1>12, <2>2 DEF RelocationSaveData, game
    <3>2. indexes_' \in Seq(File) /\ offset_' = 0
      BY <2>1, <3>1, EmptyIndex DEF OpenIndex, DiskTypes
    <3> QED
      BY <3>1, <3>2 DEF MemoryTypes
  <2>3. ~FolderExists(registry) => MemoryTypes'
    BY <1>12 DEF RelocationSaveData, MemoryTypes, plugin, game
  <2>4. DiskTypes' /\ InjectiveIndexes'
    BY <1>12, EmptyIndex, <2>1
       DEF RelocationSaveData, DiskTypes, InjectiveIndexes, disk, OpenIndex
  <2>5. MemoryTypes'
    BY <1>12, <2>2, <2>3 DEF RelocationSaveData, MemoryTypes, game, plugin
  <2>6. ProgressTypes'
    BY <1>12 DEF RelocationSaveData, ProgressTypes, Playing, Installing, Uninstalling
  <2>7. Folders'
    BY <1>12
       DEF RelocationSaveData, DiskTypes, Folders, disk, plugin, Playing, Installing,
           Uninstalling, OpenIndex
  <2> QED
    BY <2>4, <2>5, <2>6, <2>7
<1>13. CASE Move
  <2>1. NextLine \in File
    BY <1>13, LineIsFile DEF Move, LineLeft, NextLine, MemoryTypes
  <2>2. DiskTypes' /\ InjectiveIndexes'
    BY <1>13, <2>1 DEF Move, DiskTypes, InjectiveIndexes, disk, Copied, Folders, Installing
  <2>3. MemoryTypes'
    BY <1>13 DEF Move, MemoryTypes, game, plugin, LineLeft
  <2>4. ProgressTypes'
    BY <1>13 DEF Move, ProgressTypes, Playing, Installing, Uninstalling
  <2>5. Folders'
    BY <1>13 DEF Move, DiskTypes, Folders, disk, plugin, Playing, Installing, Uninstalling
  <2> QED
    BY <2>2, <2>3, <2>4, <2>5
<1>14. CASE MoveFails
  <2>1. faults' \subseteq faults \cup {} /\ mishaps' \in Nat
    BY <1>14 DEF MoveFails, ProgressTypes, Mishap
  <2>2. DiskTypes' /\ InjectiveIndexes'
    BY <1>14 DEF MoveFails, DiskTypes, InjectiveIndexes, disk
  <2>3. MemoryTypes'
    BY <1>14, EmptyIndex DEF MoveFails, MemoryTypes, game, plugin, EndInstaller
  <2>4. ProgressTypes'
    BY <1>14, <2>1
       DEF MoveFails, ProgressTypes, Playing, Installing, Uninstalling, Mishap, EndInstaller
  <2>5. Folders'
    BY <1>14
       DEF MoveFails, DiskTypes, Folders, disk, plugin, Playing, Installing, Uninstalling,
           EndInstaller
  <2> QED
    BY <2>2, <2>3, <2>4, <2>5
<1>15. CASE MoveEnds
  <2>1. DiskTypes' /\ InjectiveIndexes'
    BY <1>15 DEF MoveEnds, DiskTypes, InjectiveIndexes, disk
  <2>2. MemoryTypes'
    BY <1>15 DEF MoveEnds, MemoryTypes, game, plugin
  <2>3. ProgressTypes'
    BY <1>15 DEF MoveEnds, ProgressTypes, Playing, Installing, Uninstalling
  <2>4. Folders'
    BY <1>15 DEF MoveEnds, DiskTypes, Folders, disk, plugin, Playing, Installing, Uninstalling
  <2> QED
    BY <2>1, <2>2, <2>3, <2>4
<1>16. CASE MoveIndex
  <2>1. DiskTypes' /\ InjectiveIndexes'
    BY <1>16 DEF MoveIndex, DiskTypes, InjectiveIndexes, disk, Folders, Installing
  <2>2. MemoryTypes'
    BY <1>16 DEF MoveIndex, MemoryTypes, game, plugin, DiskTypes, Folders
  <2>3. ProgressTypes'
    BY <1>16 DEF MoveIndex, ProgressTypes, Playing, Installing, Uninstalling
  <2>4. Folders'
    BY <1>16 DEF MoveIndex, DiskTypes, Folders, disk, plugin, Playing, Installing, Uninstalling
  <2> QED
    BY <2>1, <2>2, <2>3, <2>4
<1>17. CASE Delete
  <2>1. PrevLine \in File
    BY <1>17, LineIsFile DEF Delete, LineLeft, PrevLine, MemoryTypes
  <2>2. DiskTypes' /\ InjectiveIndexes'
    <3>1. registry \in Location /\ PrevLine \in File
      BY <1>17, <2>1 DEF Delete, DiskTypes, MemoryTypes, Folders, Playing, Uninstalling, File
    <3>2. PICK n \in Nat \cup {Spoiled} : file' = file \/ file' = [file EXCEPT ![registry][PrevLine] = n]
      BY <1>17, <3>1 DEF Delete, ProgressTypes
    <3>3. file' = [file EXCEPT ![registry][PrevLine] = n] => file' \in [Location -> [File -> Nat \cup {Spoiled}]]
      BY <3>1 DEF DiskTypes
    <3> QED
      BY <1>17, <3>1, <3>2, <3>3 DEF Delete, DiskTypes, MemoryTypes, InjectiveIndexes, disk
  <2>3. MemoryTypes'
    BY <1>17 DEF Delete, MemoryTypes, game, plugin, LineLeft
  <2>4. ProgressTypes'
    BY <1>17 DEF Delete, ProgressTypes, Playing, Installing, Uninstalling, Mishap
  <2>5. Folders'
    BY <1>17 DEF Delete, DiskTypes, Folders, disk, plugin, Playing, Installing, Uninstalling
  <2> QED
    BY <2>2, <2>3, <2>4, <2>5
<1>18. CASE DeleteIndex
  <2>1. DiskTypes' /\ InjectiveIndexes'
    BY <1>18, EmptyIndex
       DEF DeleteIndex, DiskTypes, InjectiveIndexes, disk, Folders, Uninstalling
  <2>2. MemoryTypes'
    BY <1>18 DEF DeleteIndex, MemoryTypes, game, plugin
  <2>3. ProgressTypes'
    BY <1>18 DEF DeleteIndex, ProgressTypes, Playing, Installing, Uninstalling
  <2>4. Folders'
    BY <1>18
       DEF DeleteIndex, DiskTypes, Folders, disk, plugin, Playing, Installing, Uninstalling
  <2> QED
    BY <2>1, <2>2, <2>3, <2>4
<1>19. CASE Regist
  <2>1. DiskTypes' /\ InjectiveIndexes'
    BY <1>19 DEF Regist, DiskTypes, InjectiveIndexes, disk, MemoryTypes
  <2>2. MemoryTypes'
    BY <1>19, EmptyIndex DEF Regist, MemoryTypes, game, plugin, EndInstaller
  <2>3. ProgressTypes'
    BY <1>19 DEF Regist, ProgressTypes, Playing, Installing, Uninstalling, EndInstaller
  <2>4. Folders'
    BY <1>19
       DEF Regist, DiskTypes, Folders, disk, plugin, Playing, Installing, Uninstalling,
           EndInstaller
  <2> QED
    BY <2>1, <2>2, <2>3, <2>4
<1>20. CASE KillInstaller
  <2>1. DiskTypes' /\ InjectiveIndexes'
    BY <1>20 DEF KillInstaller, DiskTypes, InjectiveIndexes, disk
  <2>2. MemoryTypes'
    BY <1>20, EmptyIndex DEF KillInstaller, MemoryTypes, game, plugin, EndInstaller
  <2>3. ProgressTypes'
    BY <1>20
       DEF KillInstaller, ProgressTypes, Playing, Installing, Uninstalling, Mishap, EndInstaller
  <2>4. Folders'
    BY <1>20
       DEF KillInstaller, DiskTypes, Folders, disk, plugin, Playing, Installing, Uninstalling,
           EndInstaller
  <2> QED
    BY <2>1, <2>2, <2>3, <2>4
<1>21. CASE StartUninstaller
  <2>1. DiskTypes' /\ InjectiveIndexes'
    BY <1>21, EmptyIndex DEF StartUninstaller, DiskTypes, InjectiveIndexes, disk, OpenIndex
  <2>2. MemoryTypes'
    BY <1>21, EmptyIndex DEF StartUninstaller, MemoryTypes, game, plugin, DiskTypes, OpenIndex
  <2>3. ProgressTypes'
    BY <1>21 DEF StartUninstaller, ProgressTypes, Playing, Installing, Uninstalling
  <2>4. Folders'
    BY <1>21
       DEF StartUninstaller, DiskTypes, Folders, disk, plugin, Playing, Installing,
           Uninstalling, OpenIndex
  <2> QED
    BY <2>1, <2>2, <2>3, <2>4
<1>22. CASE Unregist
  <2>1. DiskTypes' /\ InjectiveIndexes'
    BY <1>22 DEF Unregist, DiskTypes, InjectiveIndexes, disk
  <2>2. MemoryTypes'
    BY <1>22, EmptyIndex DEF Unregist, MemoryTypes, game, plugin, EndInstaller
  <2>3. ProgressTypes'
    BY <1>22 DEF Unregist, ProgressTypes, Playing, Installing, Uninstalling, EndInstaller
  <2>4. Folders'
    BY <1>22
       DEF Unregist, DiskTypes, Folders, disk, plugin, Playing, Installing, Uninstalling,
           EndInstaller
  <2> QED
    BY <2>1, <2>2, <2>3, <2>4
<1>23. CASE UNCHANGED vars
  BY <1>23
     DEF DiskTypes, MemoryTypes, ProgressTypes, InjectiveIndexes, Folders, vars, disk, game,
         plugin
<1> QED
  BY <1>1, <1>2, <1>3, <1>4, <1>5, <1>6, <1>7, <1>8, <1>9, <1>10, <1>11,
     <1>12, <1>13, <1>14, <1>15, <1>16, <1>17, <1>18, <1>19, <1>20, <1>21, <1>22,
     <1>23
     DEF Next, Game, Saving, InstallerStep

----------------------------------------------------------------------------
(* What the steps that write do to the files and entries, folder by folder.        *)

\* saveSystemVariables writes the system file of the registered folder only.
LEMMA SaveSystemWrites ==
    ASSUME TypeOK, Folders, SaveSystem
    PROVE  /\ registry \in Location
           /\ \A l \in Location, f \in File :
                 file'[l][f] = IF l = registry /\ f = System THEN 1 ELSE file[l][f]
           /\ \A l \in Location : entries'[l] = IF l = registry THEN context_ ELSE entries[l]
<1>1. registry \in Location /\ System \in File
  BY DEF SaveSystem, Folders, Playing, File
<1> QED
  BY <1>1 DEF SaveSystem, TypeOK, DiskTypes

\* The steps that save a bookmark write its file only, and what they leave there is its last
\* save or Spoiled, or they leave it alone.
LEMMA BookmarkWrites ==
    ASSUME TypeOK, Folders, NEW b \in Bookmark, Saving(b)
    PROVE  /\ registry \in Location
           /\ UNCHANGED <<registry, target, entries, index, managed>>
           /\ pc \in Playing /\ pc' \in {"play", "saveData", "copyData", "saveSystem"} /\ pc' \in Playing
           /\ faults \subseteq faults'
           /\ \A l \in Location, f \in File : (l # registry \/ f # b) => file'[l][f] = file[l][f]
           /\ \A d \in Bookmark : d # b => Current(d)' = Current(d)
           /\ \/ file'[registry][b] = Current(b)' /\ Current(b)' # 0 /\ Contains(index_', b)
              \/ file' = file /\ Current(b)' = Current(b)
           /\ \A l \in Location, f \in File : Exists(l, f) => Exists(l, f)'
           /\ \A l \in Location : Exists(l, System)' => Exists(l, System)
           /\ \A g : Contains(index_, g) => Contains(index_', g)
           /\ \A g \in File : Contains(index_', g) =>
                 Contains(index_, g) \/ Exists(registry, g)' \/ "save" \in faults'
           /\ SaveUserData(b) => Exists(registry, b)' \/ ("save" \in faults' /\ ~Exists(registry, b))
<1> USE DEF Saving
<1>1. registry \in Location /\ b \in File /\ System \in File /\ b # System /\ saved[b] \in Nat
  BY SaveDataAssumption
     DEF SaveThumbnail, SaveUserData, CopyThumbnail, Folders, Playing, File, TypeOK, ProgressTypes
<1>2. /\ UNCHANGED <<registry, target, entries, index, managed>>
      /\ pc \in Playing /\ pc' \in {"play", "saveData", "copyData", "saveSystem"} /\ pc' \in Playing
  BY DEF SaveThumbnail, SaveUserData, CopyThumbnail, Playing
<1>3. faults \subseteq faults'
  BY DEF SaveThumbnail, SaveUserData, CopyThumbnail, WriteFails, WriteData, Mishap
<1>4. CASE Spoils(b) /\ saved' = saved /\ (Thumbnails \/ SaveUserData(b))
  <2>1. /\ \A l \in Location, f \in File : file'[l][f] = IF l = registry /\ f = b THEN Spoiled ELSE file[l][f]
        /\ \A d \in Bookmark : Current(d)' = IF d = b THEN Spoiled ELSE Current(d)
    BY <1>1, <1>4 DEF Spoils, Current, TypeOK, DiskTypes, ProgressTypes
  <2>2. Contains(index_', b)
    BY <1>4, SavingIndex DEF Spoils
  <2> QED
    BY <1>1, <1>2, <1>3, <2>1, <2>2, SavingIndex DEF Exists, Spoiled
<1>5. CASE WriteData(b) /\ SaveUserData(b)
  <2>1. /\ \A l \in Location, f \in File : file'[l][f] = IF l = registry /\ f = b THEN saved[b] + 1 ELSE file[l][f]
        /\ \A d \in Bookmark : Current(d)' = IF d = b THEN saved[b] + 1 ELSE Current(d)
    BY <1>1, <1>5 DEF WriteData, Current, TypeOK, DiskTypes, ProgressTypes
  <2>2. Contains(index_', b)
    BY <1>5, SavingIndex
  <2> QED
    BY <1>1, <1>2, <1>3, <2>1, <2>2, SavingIndex DEF Exists
<1>6. CASE UNCHANGED <<file, spoilt, saved>>
  <2>1. /\ file' = file
        /\ \A d \in Bookmark : Current(d)' = Current(d)
    BY <1>6 DEF Current
  <2>2. SaveUserData(b) => Exists(registry, b)' \/ ("save" \in faults' /\ ~Exists(registry, b))
    <3>1. ~WriteData(b)
      BY <1>1, <1>6 DEF WriteData, TypeOK, ProgressTypes
    <3>2. Spoils(b) => Exists(registry, b)'
      <4>1. file \in [Location -> [File -> Nat \cup {Spoiled}]] /\ Spoiled # 0
        BY DEF TypeOK, DiskTypes, Spoiled
      <4> QED
        BY <1>1, <1>2, <4>1 DEF Spoils, Exists
    <3>3. UNCHANGED file /\ Mishap(IF Exists(registry, b) THEN {} ELSE {"save"}) =>
             Exists(registry, b)' \/ ("save" \in faults' /\ ~Exists(registry, b))
      BY <1>2 DEF Mishap, Exists
    <3> QED
      BY <3>1, <3>2, <3>3 DEF SaveUserData, WriteFails
  <2> QED
    BY <1>1, <1>2, <1>3, <2>1, <2>2, SavingIndex DEF Exists
<1> QED
  BY <1>4, <1>5, <1>6
     DEF SaveThumbnail, SaveUserData, CopyThumbnail, WriteFails, WriteData

\* A step of the move writes one file of the new folder only.
LEMMA MoveWrites ==
    ASSUME TypeOK, Folders, Move
    PROVE  /\ NextLine \in File /\ registry \in Location /\ target \in Location /\ registry # target
           /\ \A l \in Location, f \in File :
                 file'[l][f] = IF l = target /\ f = NextLine THEN file[registry][f] ELSE file[l][f]
           /\ \A l \in Location :
                 entries'[l] = IF l = target /\ NextLine = System THEN entries[registry] ELSE entries[l]
<1>1. /\ NextLine \in File
      /\ target \in Location /\ registry \in Location /\ registry # target
  BY LineIsFile DEF Move, LineLeft, NextLine, TypeOK, MemoryTypes, Folders, Installing
<1>2. /\ file' = [file EXCEPT ![target][NextLine] = file[registry][NextLine]]
      /\ entries' = IF NextLine = System THEN [entries EXCEPT ![target] = entries[registry]] ELSE entries
  BY DEF Move, Copied
<1>3. \A l \in Location, f \in File :
         file'[l][f] = IF l = target /\ f = NextLine THEN file[registry][f] ELSE file[l][f]
  BY <1>1, <1>2 DEF TypeOK, DiskTypes
<1>4. \A l \in Location :
         entries'[l] = IF l = target /\ NextLine = System THEN entries[registry] ELSE entries[l]
  BY <1>1, <1>2 DEF TypeOK, DiskTypes
<1> QED
  BY <1>1, <1>3, <1>4

\* A step of DeleteIndexFile deletes one file of the registered folder, or nothing.
LEMMA DeleteWrites ==
    ASSUME TypeOK, Folders, Delete
    PROVE  /\ PrevLine \in File /\ registry \in Location
           /\ \/ /\ \A l \in Location, f \in File :
                       file'[l][f] = IF l = registry /\ f = PrevLine THEN 0 ELSE file[l][f]
                 /\ \A l \in Location :
                       entries'[l] = IF l = registry /\ PrevLine = System THEN {} ELSE entries[l]
                 /\ faults' = faults
              \/ file' = file /\ entries' = entries /\ "delete" \in faults'
<1>1. PrevLine \in File /\ registry \in Location
  BY LineIsFile
     DEF Delete, LineLeft, PrevLine, TypeOK, MemoryTypes, Folders, Installing, Uninstalling
<1>2. \/ /\ file' = [file EXCEPT ![registry][PrevLine] = 0]
         /\ entries' = IF PrevLine = System THEN [entries EXCEPT ![registry] = {}] ELSE entries
         /\ faults' = faults
      \/ file' = file /\ entries' = entries /\ "delete" \in faults'
  BY DEF Delete, Mishap
<1>3. ASSUME file' = [file EXCEPT ![registry][PrevLine] = 0]
      PROVE  \A l \in Location, f \in File :
                file'[l][f] = IF l = registry /\ f = PrevLine THEN 0 ELSE file[l][f]
  BY <1>1, <1>3 DEF TypeOK, DiskTypes
<1>4. ASSUME entries' = IF PrevLine = System THEN [entries EXCEPT ![registry] = {}] ELSE entries
      PROVE  \A l \in Location :
                entries'[l] = IF l = registry /\ PrevLine = System THEN {} ELSE entries[l]
  BY <1>1, <1>4 DEF TypeOK, DiskTypes
<1> QED
  BY <1>1, <1>2, <1>3, <1>4

----------------------------------------------------------------------------
(* What was saved, and what was copied.                                            *)

\* What was copied stays the same in both folders while the move goes on.
LEMMA MovedStep ==
    ASSUME TypeOK, Folders, MovedSoFar, Next \/ UNCHANGED vars
    PROVE  MovedSoFar'
<1> USE DEF history
<1>1. CASE StartGame
  BY <1>1 DEF StartGame, MovedSoFar
<1>2. CASE OnWindowClose
  BY <1>2 DEF OnWindowClose, MovedSoFar
<1>3. CASE SaveSystem
  BY <1>3 DEF SaveSystem, MovedSoFar
<1>4. CASE SaveIndex
  BY <1>4 DEF SaveIndex, EndGame, MovedSoFar
<1>5. CASE SaveFails
  BY <1>5 DEF SaveFails, MovedSoFar
<1>6. CASE KillGame
  BY <1>6 DEF KillGame, EndGame, MovedSoFar
<1>7. ASSUME NEW b \in Bookmark, Saving(b)
     PROVE  MovedSoFar'
  BY <1>7, BookmarkWrites DEF MovedSoFar, Playing
<1>8. ASSUME NEW b \in Bookmark, Load(b)
     PROVE  MovedSoFar'
  BY <1>8 DEF Load, MovedSoFar
<1>9. ASSUME NEW b \in Bookmark, EraseBookmark(b)
     PROVE  MovedSoFar'
  BY <1>9 DEF EraseBookmark, MovedSoFar
<1>10. ASSUME NEW l \in Location, StartInstaller(l)
     PROVE  MovedSoFar'
  BY <1>10 DEF StartInstaller, MovedSoFar
<1>11. CASE GameData
  BY <1>11 DEF GameData, MovedSoFar
<1>12. CASE RelocationSaveData
  <2>1. pc' = "move" => offset_' = 0
    BY <1>12 DEF RelocationSaveData, OpenIndex
  <2> QED
    BY <1>12, <2>1 DEF RelocationSaveData, MovedSoFar
<1>13. CASE Move
  <2>1. /\ NextLine \in File /\ offset_ \in Nat
        /\ target \in Location /\ registry \in Location /\ registry # target
    BY <1>13, LineIsFile DEF Move, LineLeft, NextLine, TypeOK, MemoryTypes, Folders, Installing
  <2>2. \A f \in File : Same(f) \/ f = NextLine => Same(f)'
    BY <1>13, <2>1, MoveWrites DEF Same, Move
  <2>3. \A i \in 1..offset_ + 1 : indexes_[i] \in File /\ (i \in 1..offset_ \/ indexes_[i] = NextLine)
    BY <1>13, <2>1, LineIsFile DEF Move, LineLeft, NextLine, TypeOK, MemoryTypes
  <2> QED
    BY <1>13, <2>2, <2>3 DEF Move, MovedSoFar
<1>14. CASE MoveFails
  BY <1>14 DEF MoveFails, EndInstaller, MovedSoFar
<1>15. CASE MoveEnds
  <2>1. \A f \in File : Contains(index[registry], f) => Same(f)
    BY <1>15 DEF MoveEnds, LineLeft, MovedSoFar, Contains, Folders, TypeOK, MemoryTypes
  <2>2. \A f : Same(f)' <=> Same(f)
    BY <1>15 DEF MoveEnds, Same, disk
  <2> QED
    BY <1>15, <2>1, <2>2 DEF MoveEnds, MovedSoFar, disk
<1>16. CASE MoveIndex
  BY <1>16 DEF MoveIndex, MovedSoFar
<1>17. CASE Delete
  BY <1>17 DEF Delete, MovedSoFar
<1>18. CASE DeleteIndex
  BY <1>18 DEF DeleteIndex, MovedSoFar
<1>19. CASE Regist
  BY <1>19 DEF Regist, EndInstaller, MovedSoFar
<1>20. CASE KillInstaller
  BY <1>20 DEF KillInstaller, EndInstaller, MovedSoFar
<1>21. CASE StartUninstaller
  BY <1>21 DEF StartUninstaller, MovedSoFar
<1>22. CASE Unregist
  BY <1>22 DEF Unregist, EndInstaller, MovedSoFar
<1>23. CASE UNCHANGED vars
  BY <1>23 DEF MovedSoFar, Same, vars, disk, plugin
<1> QED
  BY <1>1, <1>2, <1>3, <1>4, <1>5, <1>6, <1>7, <1>8, <1>9, <1>10, <1>11,
     <1>12, <1>13, <1>14, <1>15, <1>16, <1>17, <1>18, <1>19, <1>20, <1>21, <1>22,
     <1>23
     DEF Next, Game, Saving, InstallerStep

\* A file exists in a folder only after its bookmark was saved, and none before the first
\* installation.
LEMMA OnlySavedStep ==
    ASSUME TypeOK, Folders, OnlySaved, Next \/ UNCHANGED vars
    PROVE  OnlySaved'
<1> USE DEF history, Current
<1>1. CASE StartGame
  BY <1>1 DEF StartGame, OnlySaved, Exists, disk
<1>2. CASE OnWindowClose
  BY <1>2 DEF OnWindowClose, OnlySaved, Exists, disk
<1>3. CASE SaveSystem
  <2>1. registry \in Location /\ registry # NoLocation
    BY <1>3, SaveSystemWrites, SaveDataAssumption
  <2>2. \A l \in Location, d \in Bookmark : Current(d)' = 0 => file'[l][d] = 0
    BY <1>3, SaveSystemWrites, SaveDataAssumption
       DEF SaveSystem, OnlySaved, Exists, TypeOK, ProgressTypes, File
  <2> QED
    BY <1>3, <2>1, <2>2 DEF SaveSystem, OnlySaved
<1>4. CASE SaveIndex
  BY <1>4 DEF SaveIndex, OnlySaved, Exists, disk
<1>5. CASE SaveFails
  BY <1>5 DEF SaveFails, OnlySaved, Exists, disk
<1>6. CASE KillGame
  BY <1>6 DEF KillGame, OnlySaved, Exists, disk
<1>7. ASSUME NEW b \in Bookmark, Saving(b)
     PROVE  OnlySaved'
  <2>1. registry' = registry /\ registry \in Location /\ registry # NoLocation
    BY <1>7, BookmarkWrites, SaveDataAssumption
  <2>2. \A l \in Location, d \in Bookmark : Current(d)' = 0 => file'[l][d] = 0
    BY <1>7, BookmarkWrites DEF OnlySaved, File
  <2> QED
    BY <2>1, <2>2 DEF OnlySaved
<1>8. ASSUME NEW b \in Bookmark, Load(b)
     PROVE  OnlySaved'
  BY <1>8 DEF Load, OnlySaved, Exists, disk
<1>9. ASSUME NEW b \in Bookmark, EraseBookmark(b)
     PROVE  OnlySaved'
  BY <1>9 DEF EraseBookmark, OnlySaved, Exists, disk
<1>10. ASSUME NEW l \in Location, StartInstaller(l)
     PROVE  OnlySaved'
  BY <1>10 DEF StartInstaller, OnlySaved, Exists, disk
<1>11. CASE GameData
  BY <1>11 DEF GameData, OnlySaved, Exists, disk
<1>12. CASE RelocationSaveData
  BY <1>12 DEF RelocationSaveData, OnlySaved, Exists, disk
<1>13. CASE Move
  <2>1. registry \in Location /\ registry # NoLocation
    BY <1>13, MoveWrites, SaveDataAssumption
  <2>2. \A l \in Location, d \in Bookmark : Current(d)' = 0 => file'[l][d] = 0
    BY <1>13, MoveWrites, SaveDataAssumption
       DEF Move, OnlySaved, Exists, TypeOK, ProgressTypes, File
  <2> QED
    BY <1>13, <2>1, <2>2 DEF Move, OnlySaved
<1>14. CASE MoveFails
  BY <1>14 DEF MoveFails, OnlySaved, Exists, disk
<1>15. CASE MoveEnds
  BY <1>15 DEF MoveEnds, OnlySaved, Exists, disk
<1>16. CASE MoveIndex
  BY <1>16 DEF MoveIndex, OnlySaved, Exists, disk
<1>17. CASE Delete
  <2>1. registry \in Location /\ registry # NoLocation
    BY <1>17, DeleteWrites, SaveDataAssumption
  <2>2. \A l \in Location, d \in Bookmark : Current(d)' = 0 => file'[l][d] = 0
    BY <1>17, DeleteWrites, SaveDataAssumption
       DEF Delete, OnlySaved, Exists, TypeOK, ProgressTypes, File
  <2> QED
    BY <1>17, <2>1, <2>2 DEF Delete, OnlySaved
<1>18. CASE DeleteIndex
  BY <1>18 DEF DeleteIndex, OnlySaved, Exists, disk
<1>19. CASE Regist
  <2>1. registry' \in Location /\ registry' # NoLocation
    BY <1>19, SaveDataAssumption DEF Regist, Folders, Installing
  <2> QED
    BY <1>19, <2>1 DEF Regist, OnlySaved, disk
<1>20. CASE KillInstaller
  BY <1>20 DEF KillInstaller, OnlySaved, Exists, disk
<1>21. CASE StartUninstaller
  BY <1>21 DEF StartUninstaller, OnlySaved, Exists, disk
<1>22. CASE Unregist
  BY <1>22 DEF Unregist, OnlySaved, Exists, disk
<1>23. CASE UNCHANGED vars
  BY <1>23 DEF OnlySaved, Exists, vars, disk
<1> QED
  BY <1>1, <1>2, <1>3, <1>4, <1>5, <1>6, <1>7, <1>8, <1>9, <1>10, <1>11,
     <1>12, <1>13, <1>14, <1>15, <1>16, <1>17, <1>18, <1>19, <1>20, <1>21, <1>22,
     <1>23
     DEF Next, Game, Saving, InstallerStep

\* Where there are thumbnails, the bookmark whose data comes next is spoiled until then.
LEMMA HalfWrittenStep ==
    ASSUME HalfWritten, Next \/ UNCHANGED vars
    PROVE  HalfWritten'
<1>1. ASSUME NEW b \in Bookmark, SaveThumbnail(b)
      PROVE  HalfWritten'
  BY <1>1 DEF SaveThumbnail, Spoils, HalfWritten
<1>2. ASSUME NEW b \in Bookmark, NEW c \in Bookmark, CopyThumbnail(b, c)
      PROVE  HalfWritten'
  BY <1>2 DEF CopyThumbnail, Spoils, HalfWritten
<1>3. ASSUME pc' \notin {"saveData", "copyData"}
      PROVE  HalfWritten'
  BY <1>3 DEF HalfWritten
<1>4. ASSUME NEW b \in Bookmark, SaveUserData(b) \/ Load(b) \/ EraseBookmark(b)
      PROVE  HalfWritten'
  BY <1>3, <1>4 DEF SaveUserData, Load, EraseBookmark
<1>5. ASSUME StartGame \/ OnWindowClose \/ SaveSystem \/ SaveIndex \/ SaveFails \/ KillGame
      PROVE  HalfWritten'
  BY <1>3, <1>5 DEF StartGame, OnWindowClose, SaveSystem, SaveIndex, SaveFails, KillGame, EndGame
<1>6. ASSUME NEW l \in Location, StartInstaller(l)
      PROVE  HalfWritten'
  BY <1>3, <1>6 DEF StartInstaller
<1>7. ASSUME InstallerStep \/ KillInstaller \/ StartUninstaller \/ Unregist
      PROVE  HalfWritten'
  BY <1>3, <1>7
     DEF InstallerStep, GameData, RelocationSaveData, Move, MoveFails, MoveEnds, MoveIndex, Delete,
         DeleteIndex, Regist, KillInstaller, StartUninstaller, Unregist, EndInstaller
<1>8. CASE UNCHANGED vars
  BY <1>8 DEF vars, game, history, HalfWritten
<1> QED
  BY <1>1, <1>2, <1>4, <1>5, <1>6, <1>7, <1>8 DEF Next, Game

----------------------------------------------------------------------------
(* The folder of the saves is complete.                                            *)

\* Complete is kept: the folder that has the saves changes only after everything the
\* index lists was copied, and the index lists everything.
LEMMA CompleteStep ==
    ASSUME TypeOK, Folders, OnlySaved, MovedSoFar, Complete, Next \/ UNCHANGED vars
    PROVE  Complete'
<1> USE DEF history, Current
<1>1. CASE StartGame
  <2>1. registry \in Location /\ LoadIndex \in Seq(File)
    BY <1>1, EmptyIndex, SaveDataAssumption DEF StartGame, LoadIndex, TypeOK, DiskTypes
  <2>2. \A g : Contains(LoadIndex, g) => Contains(index_', g)
    BY <1>1, <2>1, AddIndexProperties DEF StartGame, File
  <2> QED
    BY <1>1, <2>1, <2>2
       DEF StartGame, LoadIndex, Complete, Undisturbed, Exists, Home, Halfway, disk, Playing,
           Installing, Uninstalling
<1>2. CASE OnWindowClose
  BY <1>2
     DEF OnWindowClose, game, Complete, Undisturbed, Exists, Home, Halfway, disk, Playing,
         Installing, Uninstalling
<1>3. CASE SaveSystem
  <2>1. \A g : Contains(AddIndex(index_, System), g) <=> Contains(index_, g) \/ g = System
    BY AddIndexProperties DEF TypeOK, MemoryTypes, File
  <2> QED
    BY <1>3, <2>1, SaveSystemWrites, SaveDataAssumption
       DEF SaveSystem, File, Complete, Undisturbed, Exists, Home, Halfway, disk, Playing,
           Installing, Uninstalling
<1>4. CASE SaveIndex
  <2>1. registry \in Location /\ index'[registry] = index_ /\ registry \in managed'
    BY <1>4 DEF SaveIndex, Folders, Playing, TypeOK, DiskTypes
  <2> QED
    BY <1>4, <2>1
       DEF SaveIndex, EndGame, game, Complete, Undisturbed, Exists, Home, Halfway, disk,
           Playing, Installing, Uninstalling
<1>5. CASE SaveFails
  <2>1. \A g : Contains(AddIndex(index_, System), g) <=> Contains(index_, g) \/ g = System
    BY AddIndexProperties DEF TypeOK, MemoryTypes, File
  <2> QED
    BY <1>5, <2>1
       DEF SaveFails, Mishap, Complete, Undisturbed, Exists, Home, Halfway, disk, Playing,
           Installing, Uninstalling
<1>6. CASE KillGame
  BY <1>6
     DEF KillGame, EndGame, Mishap, Unlisted, Complete, Undisturbed, Exists, Home, Halfway,
         disk, Playing, Installing, Uninstalling
<1>7. ASSUME NEW b \in Bookmark, Saving(b)
     PROVE  Complete'
  <2>1. /\ registry \in Location /\ UNCHANGED <<registry, target>>
        /\ pc \in Playing /\ pc' \in Playing
        /\ faults \subseteq faults'
    BY <1>7, BookmarkWrites
  <2>2. Home = registry /\ Home' = registry /\ (Undisturbed' => Undisturbed)
    BY <2>1 DEF Home, Halfway, Undisturbed, Playing, Uninstalling
  <2> SUFFICES ASSUME Undisturbed'
               PROVE  /\ \A d \in Bookmark : file'[registry][d] = Current(d)'
                      /\ \A f \in File : file'[registry][f] # 0 => Contains(index_', f)
                      /\ file'[registry][System] = 0 => \A l \in Location : file'[l][System] = 0
    BY <2>1, <2>2 DEF Complete, Exists
  <2>3. /\ \A d \in Bookmark : file[registry][d] = Current(d)
        /\ \A f \in File : file[registry][f] # 0 => Contains(index_, f)
        /\ file[registry][System] = 0 => \A l \in Location : file[l][System] = 0
    BY <2>1, <2>2 DEF Complete, Exists
  <2>4. System \in File /\ System # b
    BY SaveDataAssumption DEF File
  <2> QED
    BY <1>7, <2>1, <2>3, <2>4, BookmarkWrites DEF File
<1>8. ASSUME NEW b \in Bookmark, Load(b)
     PROVE  Complete'
  <2>1. \A g : Contains(AddIndex(index_, b), g) <=> Contains(index_, g) \/ g = b
    BY AddIndexProperties DEF TypeOK, MemoryTypes, File
  <2> QED
    BY <1>8, <2>1
       DEF Load, Mishap, Complete, Undisturbed, Exists, Home, Halfway, disk, Playing,
           Installing, Uninstalling
<1>9. ASSUME NEW b \in Bookmark, EraseBookmark(b)
     PROVE  Complete'
  BY <1>9
     DEF EraseBookmark, Complete, Undisturbed, Exists, Home, Halfway, disk, Playing, Installing,
         Uninstalling
<1>10. ASSUME NEW l \in Location, StartInstaller(l)
     PROVE  Complete'
  BY <1>10
     DEF StartInstaller, Complete, Undisturbed, Exists, Home, Halfway, disk, Playing,
         Installing, Uninstalling
<1>11. CASE GameData
  <2>1. target \in Location /\ index' = [index EXCEPT ![target] = IF target \in managed THEN @ ELSE <<>>]
    BY <1>11 DEF GameData, Folders, Installing
  <2>2. \A l \in Location : l \in managed => index'[l] = index[l] /\ l \in managed'
    BY <1>11, <2>1 DEF GameData, TypeOK, DiskTypes
  <2> QED
    BY <1>11, <2>2
       DEF GameData, TypeOK, DiskTypes, Complete, Undisturbed, Exists, Home, Halfway, disk,
           Playing, Installing, Uninstalling
<1>12. CASE RelocationSaveData
  <2>1. registry \in Location /\ target \in Location /\ registry # target
    BY <1>12 DEF RelocationSaveData, Folders, Installing
  <2>2. CASE FolderExists(registry)
    <3>1. registry \in managed => index'[registry] = index[registry] /\ registry \in managed'
      BY <1>12, <2>1, <2>2 DEF RelocationSaveData, OpenIndex, TypeOK, DiskTypes
    <3> QED
      BY <1>12, <2>1, <2>2, <3>1
         DEF RelocationSaveData, OpenIndex, Complete, Undisturbed, Exists, Home, Halfway, disk,
             Playing, Installing, Uninstalling
  <2>3. CASE ~FolderExists(registry)
    <3> SUFFICES ASSUME Undisturbed'
                 PROVE  /\ \A b \in Bookmark : file[target][b] = Current(b)
                        /\ \A f \in File : ~Exists(target, f)
                        /\ \A l \in Location : ~Exists(l, System)
      BY <1>12, <2>1, <2>3
         DEF RelocationSaveData, Complete, Undisturbed, Exists, Home, Halfway, disk, Playing,
             Installing, Uninstalling
    <3>1. \A f \in File : file[registry][f] = 0
      BY <2>1, <2>3 DEF FolderExists, Exists, TypeOK, DiskTypes
    <3>2. /\ \A b \in Bookmark : file[registry][b] = Current(b)
          /\ \A l \in Location : ~Exists(l, System)
      BY <1>12, <2>1, <2>3, <3>1
         DEF RelocationSaveData, File, Complete, Undisturbed, Exists, Home, Halfway, disk,
             Playing, Installing, Uninstalling
    <3> QED
      BY <2>1, <3>1, <3>2 DEF OnlySaved, Exists, File
  <2> QED
    BY <2>2, <2>3
<1>13. CASE Move
  <2>1. /\ registry \in Location /\ target \in Location /\ registry # target
        /\ \A l \in Location, f \in File :
              file'[l][f] = file[l][f] \/ (l = target /\ file'[l][f] = file[registry][f])
    BY <1>13, MoveWrites
  <2> QED
    BY <1>13, <2>1
       DEF Move, File, Complete, Undisturbed, Exists, Home, Halfway, disk, Playing, Installing,
           Uninstalling
<1>14. CASE MoveFails
  BY <1>14
     DEF MoveFails, EndInstaller, Mishap, Complete, Undisturbed, Exists, Home, Halfway, disk,
         Playing, Installing, Uninstalling
<1>15. CASE MoveEnds
  BY <1>15
     DEF MoveEnds, Complete, Undisturbed, Exists, Home, Halfway, disk, Playing, Installing,
         Uninstalling
<1>16. CASE MoveIndex
  <2>1. registry \in Location /\ target \in Location /\ registry # target /\ target \in managed
    BY <1>16 DEF MoveIndex, Folders, Installing
  <2> SUFFICES ASSUME Undisturbed'
               PROVE  /\ \A b \in Bookmark : file[target][b] = Current(b)
                      /\ \A f \in File : Exists(target, f) => Contains(index[registry], f)
                      /\ ~Exists(target, System) => \A l \in Location : ~Exists(l, System)
    BY <1>16, <2>1
       DEF MoveIndex, TypeOK, DiskTypes, Complete, Undisturbed, Exists, Home, Halfway, disk,
           Playing, Installing, Uninstalling
  <2>2. /\ \A b \in Bookmark : file[registry][b] = Current(b)
        /\ \A f \in File : Exists(registry, f) => Contains(index[registry], f)
        /\ ~Exists(registry, System) => \A l \in Location : ~Exists(l, System)
    BY <1>16, <2>1
       DEF MoveIndex, Complete, Undisturbed, Exists, Home, Halfway, disk, Playing, Installing,
           Uninstalling
  <2>3. \A f \in File : Contains(index[registry], f) => file[target][f] = file[registry][f]
    BY <1>16 DEF MoveIndex, MovedSoFar, Same
  <2>4. \A b \in Bookmark : file[target][b] = Current(b) /\ (Current(b) # 0 => Contains(index[registry], b))
    <3> SUFFICES ASSUME NEW b \in Bookmark
                 PROVE  file[target][b] = Current(b) /\ (Current(b) # 0 => Contains(index[registry], b))
      OBVIOUS
    <3>1. b \in File
      BY DEF File
    <3>2. CASE Current(b) = 0
      BY <2>1, <3>2 DEF OnlySaved
    <3>3. CASE Current(b) # 0
      BY <2>2, <2>3, <3>1, <3>3 DEF Exists
    <3> QED
      BY <3>1, <3>2, <3>3
  <2> QED
    BY <2>1, <2>2, <2>3, <2>4 DEF Exists, File
<1>17. CASE Delete
  <2>1. \A l \in Location : l # registry => \A f \in File : file'[l][f] = file[l][f]
    BY <1>17, DeleteWrites
  <2>2. \A l \in Location : Exists(l, System)' => Exists(l, System)
    BY <1>17, DeleteWrites DEF Exists, File
  <2>3. pc = "delete" => registry # target /\ target \in Location
    BY <1>17 DEF Folders, Installing
  <2> QED
    BY <1>17, <2>1, <2>2, <2>3
       DEF Delete, Mishap, File, Complete, Undisturbed, Exists, Home, Halfway, disk, Playing,
           Installing, Uninstalling
<1>18. CASE DeleteIndex
  <2>1. \A l \in Location : l # registry => index'[l] = index[l] /\ (l \in managed => l \in managed')
    BY <1>18 DEF DeleteIndex, TypeOK, DiskTypes
  <2>2. pc = "delete" => registry # target /\ target \in Location /\ registry # NoLocation
    BY <1>18, SaveDataAssumption DEF Folders, Installing
  <2> QED
    BY <1>18, <2>1, <2>2
       DEF DeleteIndex, Complete, Undisturbed, Exists, Home, Halfway, disk, Playing, Installing,
           Uninstalling
<1>19. CASE Regist
  <2>1. target \in Location
    BY <1>19 DEF Regist, Folders, Installing
  <2>2. CASE registry # NoLocation
    BY <1>19, <2>2
       DEF Regist, EndInstaller, Complete, Undisturbed, Exists, Home, Halfway, disk, Playing,
           Installing, Uninstalling
  <2>3. CASE registry = NoLocation
    <3>1. \A l \in Location, f \in File : file[l][f] = 0 \/ (f = System /\ ~Exists(l, f))
      BY <2>3 DEF OnlySaved, File
    <3> QED
      BY <1>19, <2>1, <2>3, <3>1
         DEF Regist, EndInstaller, OnlySaved, File, Complete, Undisturbed, Exists, Home,
             Halfway, disk, Playing, Installing, Uninstalling
  <2> QED
    BY <2>2, <2>3
<1>20. CASE KillInstaller
  BY <1>20
     DEF KillInstaller, EndInstaller, Mishap, Complete, Undisturbed, Exists, Home, Halfway,
         disk, Playing, Installing, Uninstalling
<1>21. CASE StartUninstaller
  BY <1>21
     DEF StartUninstaller, OpenIndex, Complete, Undisturbed, Exists, Home, Halfway, disk,
         Playing, Installing, Uninstalling
<1>22. CASE Unregist
  BY <1>22
     DEF Unregist, EndInstaller, Complete, Undisturbed, Exists, Home, Halfway, disk, Playing,
         Installing, Uninstalling
<1>23. CASE UNCHANGED vars
  BY <1>23
     DEF Complete, Undisturbed, Exists, Home, Halfway, disk, Playing, Installing, Uninstalling,
         vars, game
<1> QED
  BY <1>1, <1>2, <1>3, <1>4, <1>5, <1>6, <1>7, <1>8, <1>9, <1>10, <1>11,
     <1>12, <1>13, <1>14, <1>15, <1>16, <1>17, <1>18, <1>19, <1>20, <1>21, <1>22,
     <1>23
     DEF Next, Game, Saving, InstallerStep

----------------------------------------------------------------------------
(* What an index lists exists.                                                     *)

\* Real is kept: a name is written to an index only after its file, and the index goes
\* after the last file.
LEMMA RealStep ==
    ASSUME TypeOK, Folders, MovedSoFar, Real, Next \/ UNCHANGED vars
    PROVE  Real'
<1> USE DEF history
<1>1. CASE StartGame
  <2>1. registry \in Location /\ LoadIndex \in Seq(File)
    BY <1>1, EmptyIndex, SaveDataAssumption DEF StartGame, LoadIndex, TypeOK, DiskTypes
  <2>2. \A b \in Bookmark : Contains(index_', b) => Contains(LoadIndex, b)
    <3>1. \A g : Contains(AddIndex(LoadIndex, System), g) <=> Contains(LoadIndex, g) \/ g = System
      BY <2>1, AddIndexProperties DEF File
    <3> QED
      BY <1>1, <3>1, SaveDataAssumption DEF StartGame
  <2> QED
    BY <1>1, <2>1, <2>2, EmptyIndex
       DEF StartGame, LoadIndex, File, Real, Emptied, Exists, disk, Playing, Installing,
           Uninstalling
<1>2. CASE OnWindowClose
  BY <1>2
     DEF OnWindowClose, game, Real, Emptied, Exists, disk, Playing, Installing, Uninstalling
<1>3. CASE SaveSystem
  <2>1. \A g : Contains(AddIndex(index_, System), g) <=> Contains(index_, g) \/ g = System
    BY AddIndexProperties DEF TypeOK, MemoryTypes, File
  <2> QED
    BY <1>3, <2>1, SaveSystemWrites, SaveDataAssumption
       DEF SaveSystem, File, Real, Emptied, Exists, disk, Playing, Installing, Uninstalling
<1>4. CASE SaveIndex
  <2>1. registry \in Location
    BY <1>4 DEF SaveIndex, Folders, Playing
  <2>2. \A l \in Location : index'[l] = IF l = registry THEN index_ ELSE index[l]
    BY <1>4, <2>1 DEF SaveIndex, TypeOK, DiskTypes
  <2> QED
    BY <1>4, <2>1, <2>2
       DEF SaveIndex, EndGame, game, File, Real, Emptied, Exists, disk, Playing, Installing,
           Uninstalling
<1>5. CASE SaveFails
  <2>1. \A g : Contains(AddIndex(index_, System), g) <=> Contains(index_, g) \/ g = System
    BY AddIndexProperties DEF TypeOK, MemoryTypes, File
  <2> QED
    BY <1>5, <2>1, SaveDataAssumption
       DEF SaveFails, Mishap, Real, Emptied, Exists, disk, Playing, Installing, Uninstalling
<1>6. CASE KillGame
  BY <1>6
     DEF KillGame, EndGame, Mishap, Real, Emptied, Exists, disk, Playing, Installing,
         Uninstalling
<1>7. ASSUME NEW b \in Bookmark, Saving(b)
     PROVE  Real'
  <2>1. /\ registry \in Location /\ UNCHANGED <<registry, index>>
        /\ pc \in Playing /\ pc' \in {"play", "saveData", "copyData", "saveSystem"}
        /\ faults \subseteq faults'
        /\ \A l \in Location, f \in File : Exists(l, f) => Exists(l, f)'
        /\ \A g \in File : Contains(index_', g) =>
               Contains(index_, g) \/ Exists(registry, g)' \/ "save" \in faults'
    BY <1>7, BookmarkWrites
  <2> QED
    BY <2>1 DEF Real, Emptied, File, Playing
<1>8. ASSUME NEW b \in Bookmark, Load(b)
     PROVE  Real'
  <2>1. \A g : Contains(AddIndex(index_, b), g) <=> Contains(index_, g) \/ g = b
    BY AddIndexProperties DEF TypeOK, MemoryTypes, File
  <2> QED
    BY <1>8, <2>1, SaveDataAssumption
       DEF Load, Mishap, Real, Emptied, Exists, disk, Playing, Installing, Uninstalling
<1>9. ASSUME NEW b \in Bookmark, EraseBookmark(b)
     PROVE  Real'
  BY <1>9 DEF EraseBookmark, Real, Emptied, Exists, disk, Playing, Installing, Uninstalling
<1>10. ASSUME NEW l \in Location, StartInstaller(l)
     PROVE  Real'
  BY <1>10 DEF StartInstaller, Real, Emptied, Exists, disk, Playing, Installing, Uninstalling
<1>11. CASE GameData
  <2>1. target \in Location
    BY <1>11 DEF GameData, Folders, Installing
  <2>2. \A l \in Location : index'[l] \in {index[l], <<>>}
    BY <1>11, <2>1 DEF GameData, TypeOK, DiskTypes
  <2> QED
    BY <1>11, <2>2, EmptyIndex
       DEF GameData, Real, Emptied, Exists, disk, Playing, Installing, Uninstalling
<1>12. CASE RelocationSaveData
  <2>1. registry \in Location
    BY <1>12 DEF RelocationSaveData, Folders
  <2>2. \A l \in Location : index'[l] \in {index[l], <<>>}
    <3>1. CASE FolderExists(registry)
      BY <1>12, <2>1, <3>1 DEF RelocationSaveData, OpenIndex, TypeOK, DiskTypes
    <3>2. CASE ~FolderExists(registry)
      BY <1>12, <3>2 DEF RelocationSaveData
    <3> QED
      BY <3>1, <3>2
  <2> QED
    BY <1>12, <2>2, EmptyIndex
       DEF RelocationSaveData, Real, Emptied, Exists, disk, Playing, Installing, Uninstalling
<1>13. CASE Move
  <2>1. \A l \in Location, f \in File : Exists(l, f) => Exists(l, f)'
    BY <1>13, MoveWrites DEF Move, Exists
  <2> QED
    BY <1>13, <2>1 DEF Move, Real, Emptied, Exists, disk, Playing, Installing, Uninstalling
<1>14. CASE MoveFails
  BY <1>14
     DEF MoveFails, EndInstaller, Mishap, Real, Emptied, Exists, disk, Playing, Installing,
         Uninstalling
<1>15. CASE MoveEnds
  BY <1>15 DEF MoveEnds, Real, Emptied, Exists, disk, Playing, Installing, Uninstalling
<1>16. CASE MoveIndex
  <2>1. registry \in Location /\ target \in Location /\ registry # target
    BY <1>16 DEF MoveIndex, Folders, Installing
  <2>2. \A l \in Location : index'[l] = IF l = target THEN index[registry] ELSE index[l]
    BY <1>16, <2>1 DEF MoveIndex, TypeOK, DiskTypes
  <2>3. \A f \in File : Contains(index[registry], f) => file[target][f] = file[registry][f]
    BY <1>16 DEF MoveIndex, MovedSoFar, Same
  <2> QED
    BY <1>16, <2>1, <2>2, <2>3
       DEF MoveIndex, Real, Emptied, Exists, disk, Playing, Installing, Uninstalling
<1>17. CASE Delete
  <2>1. \A l \in Location : l # registry => \A f \in File : file'[l][f] = file[l][f]
    BY <1>17, DeleteWrites
  <2> QED
    BY <1>17, <2>1
       DEF Delete, Mishap, Real, Emptied, Exists, disk, Playing, Installing, Uninstalling
<1>18. CASE DeleteIndex
  <2>1. registry \in Location
    BY <1>18 DEF DeleteIndex, Folders, Uninstalling
  <2>2. \A l \in Location : index'[l] = IF l = registry THEN <<>> ELSE index[l]
    BY <1>18, <2>1 DEF DeleteIndex, TypeOK, DiskTypes
  <2> QED
    BY <1>18, <2>1, <2>2, EmptyIndex
       DEF DeleteIndex, Real, Emptied, Exists, disk, Playing, Installing, Uninstalling
<1>19. CASE Regist
  BY <1>19
     DEF Regist, EndInstaller, Real, Emptied, Exists, disk, Playing, Installing, Uninstalling
<1>20. CASE KillInstaller
  BY <1>20
     DEF KillInstaller, Halfway, EndInstaller, Mishap, Real, Emptied, Exists, disk, Playing,
         Installing, Uninstalling
<1>21. CASE StartUninstaller
  <2>1. registry \in Location
    BY <1>21, SaveDataAssumption DEF StartUninstaller, TypeOK, DiskTypes
  <2>2. index' = index
    <3>1. CASE registry \in managed
      <4>1. index' = [index EXCEPT ![registry] = index[registry]]
        BY <1>21, <3>1 DEF StartUninstaller, OpenIndex
      <4> QED
        BY <2>1, <4>1 DEF TypeOK, DiskTypes
    <3>2. CASE registry \notin managed
      BY <1>21, <3>2 DEF StartUninstaller
    <3> QED
      BY <3>1, <3>2
  <2> QED
    BY <1>21, <2>2
       DEF StartUninstaller, Real, Emptied, Exists, disk, Playing, Installing, Uninstalling
<1>22. CASE Unregist
  BY <1>22
     DEF Unregist, EndInstaller, Real, Emptied, Exists, disk, Playing, Installing, Uninstalling
<1>23. CASE UNCHANGED vars
  BY <1>23 DEF Real, Emptied, Exists, disk, Playing, Installing, Uninstalling, vars, game
<1> QED
  BY <1>1, <1>2, <1>3, <1>4, <1>5, <1>6, <1>7, <1>8, <1>9, <1>10, <1>11,
     <1>12, <1>13, <1>14, <1>15, <1>16, <1>17, <1>18, <1>19, <1>20, <1>21, <1>22,
     <1>23
     DEF Next, Game, Saving, InstallerStep

----------------------------------------------------------------------------
(* What the uninstaller leaves.                                                    *)

\* Left is kept: the uninstaller reads the index from its end, line by line.
LEMMA LeftStep ==
    ASSUME TypeOK, Folders, Complete, Left, Next \/ UNCHANGED vars
    PROVE  Left'
<1> USE DEF history
<1>1. CASE StartGame
  BY <1>1 DEF StartGame, Left, Exists, disk, Playing, Installing, Uninstalling
<1>2. CASE OnWindowClose
  BY <1>2 DEF OnWindowClose, Left, Exists, disk, Playing, Installing, Uninstalling
<1>3. CASE SaveSystem
  BY <1>3 DEF SaveSystem, Left, Exists, disk, Playing, Installing, Uninstalling
<1>4. CASE SaveIndex
  BY <1>4 DEF SaveIndex, EndGame, Mishap, Left, Exists, disk, Playing, Installing, Uninstalling
<1>5. CASE SaveFails
  BY <1>5 DEF SaveFails, Left, Exists, disk, Playing, Installing, Uninstalling
<1>6. CASE KillGame
  BY <1>6 DEF KillGame, EndGame, Mishap, Left, Exists, disk, Playing, Installing, Uninstalling
<1>7. ASSUME NEW b \in Bookmark, Saving(b)
     PROVE  Left'
  BY <1>7, BookmarkWrites DEF Left, Playing
<1>8. ASSUME NEW b \in Bookmark, Load(b)
     PROVE  Left'
  BY <1>8 DEF Load, Left, Exists, disk, Playing, Installing, Uninstalling
<1>9. ASSUME NEW b \in Bookmark, EraseBookmark(b)
     PROVE  Left'
  BY <1>9 DEF EraseBookmark, Left, Exists, disk, Playing, Installing, Uninstalling
<1>10. ASSUME NEW l \in Location, StartInstaller(l)
     PROVE  Left'
  BY <1>10 DEF StartInstaller, Left, Exists, disk, Playing, Installing, Uninstalling
<1>11. CASE GameData
  BY <1>11 DEF GameData, Left, Exists, disk, Playing, Installing, Uninstalling
<1>12. CASE RelocationSaveData
  BY <1>12 DEF RelocationSaveData, Left, Exists, disk, Playing, Installing, Uninstalling
<1>13. CASE Move
  BY <1>13 DEF Move, Left, Exists, disk, Playing, Installing, Uninstalling
<1>14. CASE MoveFails
  BY <1>14
     DEF MoveFails, EndInstaller, Mishap, Left, Exists, disk, Playing, Installing, Uninstalling
<1>15. CASE MoveEnds
  BY <1>15 DEF MoveEnds, Left, Exists, disk, Playing, Installing, Uninstalling
<1>16. CASE MoveIndex
  BY <1>16 DEF MoveIndex, Left, Exists, disk, Playing, Installing, Uninstalling
<1>17. CASE Delete
  <2>1. CASE pc = "un.delete" /\ faults' = {}
    <3>1. faults = {} /\ LineLeft /\ offset_' = offset_ + 1
      BY <1>17, <2>1 DEF Delete, Mishap
    <3>2. /\ registry \in Location /\ PrevLine \in File
          /\ \A f \in File : file'[registry][f] = IF f = PrevLine THEN 0 ELSE file[registry][f]
      BY <1>17, <2>1, DeleteWrites
    <3>3. \A f \in File : Exists(registry, f)' => Exists(registry, f) /\ f # PrevLine
      BY <1>17, <3>2 DEF Delete, Exists
    <3>4. Len(indexes_) \in Nat /\ offset_ \in 0..Len(indexes_) - 1 /\ PrevLine = indexes_[Len(indexes_) - offset_]
      BY <3>1, LenProperties DEF LineLeft, PrevLine, TypeOK, MemoryTypes
    <3>5. ASSUME NEW f \in File, Exists(registry, f)'
          PROVE  \E i \in 1..Len(indexes_) - (offset_ + 1) : indexes_[i] = f
      <4>1. PICK i \in 1..Len(indexes_) - offset_ : indexes_[i] = f
        BY <2>1, <3>1, <3>3, <3>5 DEF Left
      <4>2. i # Len(indexes_) - offset_
        BY <3>3, <3>4, <3>5, <4>1
      <4> QED
        BY <3>4, <4>1, <4>2
    <3> QED
      BY <1>17, <2>1, <3>1, <3>5 DEF Delete, Left
  <2>2. CASE ~(pc = "un.delete" /\ faults' = {})
    BY <1>17, <2>2 DEF Delete, Left
  <2> QED
    BY <2>1, <2>2
<1>18. CASE DeleteIndex
  <2>1. Len(indexes_) \in Nat /\ offset_ = Len(indexes_)
    BY <1>18, LenProperties DEF DeleteIndex, LineLeft, TypeOK, MemoryTypes
  <2>2. 1..Len(indexes_) - offset_ = {}
    BY <2>1
  <2> QED
    BY <1>18, <2>2 DEF DeleteIndex, Left, Exists, disk, Playing, Installing, Uninstalling
<1>19. CASE Regist
  BY <1>19
     DEF Regist, EndInstaller, Mishap, Left, Exists, disk, Playing, Installing, Uninstalling
<1>20. CASE KillInstaller
  BY <1>20
     DEF KillInstaller, EndInstaller, Mishap, Left, Exists, disk, Playing, Installing,
         Uninstalling
<1>21. CASE StartUninstaller
  <2>1. registry \in Location
    BY <1>21, SaveDataAssumption DEF StartUninstaller, TypeOK, DiskTypes
  <2>2. faults' = {} => \A f \in File : Exists(registry, f) => registry \in managed /\ Contains(index[registry], f)
    BY <1>21, <2>1, SaveDataAssumption
       DEF StartUninstaller, Complete, Undisturbed, Home, Halfway, Playing, Uninstalling
  <2>3. CASE registry \in managed
    <3>1. indexes_' = index[registry] /\ offset_' = 0 /\ Len(index[registry]) \in Nat
      BY <1>21, <2>1, <2>3, LenProperties DEF StartUninstaller, OpenIndex, TypeOK, DiskTypes
    <3>2. pc' = "un.delete" /\ UNCHANGED <<file, registry, faults>>
      BY <1>21, <2>3 DEF StartUninstaller
    <3> QED
      BY <2>2, <3>1, <3>2 DEF Left, Exists, Contains
  <2>4. CASE registry \notin managed
    BY <1>21, <2>2, <2>4
       DEF StartUninstaller, Left, Exists, disk, Playing, Installing, Uninstalling
  <2> QED
    BY <2>3, <2>4
<1>22. CASE Unregist
  BY <1>22
     DEF Unregist, EndInstaller, Mishap, Left, Exists, disk, Playing, Installing, Uninstalling
<1>23. CASE UNCHANGED vars
  BY <1>23 DEF Left, Exists, disk, Playing, Installing, Uninstalling, vars, plugin
<1> QED
  BY <1>1, <1>2, <1>3, <1>4, <1>5, <1>6, <1>7, <1>8, <1>9, <1>10, <1>11,
     <1>12, <1>13, <1>14, <1>15, <1>16, <1>17, <1>18, <1>19, <1>20, <1>21, <1>22,
     <1>23
     DEF Next, Game, Saving, InstallerStep

----------------------------------------------------------------------------
(* What is enabled can be loaded.                                                  *)

\* Loadable is kept: a bookmark is written before the system file enables it, and the
\* installer copies the system file only with every file the index lists.
LEMMA LoadableStep ==
    ASSUME TypeOK, Folders, HalfWritten, OnlySaved, MovedSoFar, Complete, Loadable, Next \/ UNCHANGED vars
    PROVE  Loadable'
<1> USE DEF history
<1>1. CASE StartGame
  BY <1>1
     DEF StartGame, Loadable, Undisturbed, Exists, Home, Halfway, disk, Playing, Installing,
         Uninstalling
<1>2. CASE OnWindowClose
  BY <1>2
     DEF OnWindowClose, game, Loadable, Undisturbed, Exists, Home, Halfway, disk, Playing,
         Installing, Uninstalling
<1>3. CASE SaveSystem
  BY <1>3, SaveSystemWrites
     DEF SaveSystem, Loadable, Undisturbed, Exists, Home, Halfway, disk, Playing, Installing,
         Uninstalling, File
<1>4. CASE SaveIndex
  BY <1>4
     DEF SaveIndex, EndGame, Mishap, game, Loadable, Undisturbed, Exists, Home, Halfway, disk,
         Playing, Installing, Uninstalling
<1>5. CASE SaveFails
  BY <1>5
     DEF SaveFails, Mishap, Loadable, Undisturbed, Exists, Home, Halfway, disk, Playing,
         Installing, Uninstalling
<1>6. CASE KillGame
  BY <1>6
     DEF KillGame, EndGame, Mishap, game, Loadable, Undisturbed, Exists, Home, Halfway, disk,
         Playing, Installing, Uninstalling
<1>7. ASSUME NEW b \in Bookmark, Saving(b)
     PROVE  Loadable'
  <2>1. /\ registry \in Location /\ UNCHANGED <<registry, target, entries>>
        /\ pc \in Playing /\ pc' \in Playing
        /\ faults \subseteq faults'
        /\ \A l \in Location, f \in File : Exists(l, f) => Exists(l, f)'
        /\ \A l \in Location : Exists(l, System)' => Exists(l, System)
    BY <1>7, BookmarkWrites
  <2>2. Home = registry /\ Home' = registry /\ (Undisturbed' => Undisturbed)
    BY <2>1 DEF Home, Halfway, Undisturbed, Playing, Uninstalling
  <2>3. \A l \in Location : entries[l] \subseteq File
    BY DEF TypeOK, DiskTypes, File
  <2>4. ASSUME Undisturbed', Thumbnails \/ "save" \notin faults', NEW d \in context_'
        PROVE  Exists(registry, d)'
    <3>1. CASE d \in context_
      BY <2>1, <2>2, <2>4, <3>1 DEF Loadable, TypeOK, MemoryTypes, File
    <3>2. CASE d \notin context_
      <4>1. SaveUserData(b) /\ d = b
        BY <1>7, <2>4, <3>2 DEF Saving, SaveThumbnail, CopyThumbnail, SaveUserData
      <4>2. Exists(registry, b)' \/ ("save" \in faults' /\ ~Exists(registry, b))
        BY <1>7, <4>1, BookmarkWrites
      <4>3. Thumbnails => Exists(registry, b)
        BY <2>1, <2>2, <2>4, <4>1
           DEF SaveUserData, HalfWritten, Complete, Current, Exists, Spoiled
      <4> QED
        BY <2>4, <4>1, <4>2, <4>3
    <3> QED
      BY <3>1, <3>2
  <2>5. ASSUME Undisturbed', Thumbnails \/ "save" \notin faults', NEW d \in entries'[registry]
        PROVE  Exists(registry, d)'
    BY <2>1, <2>2, <2>3, <2>5 DEF Loadable
  <2>6. \A l \in Location : ~Exists(l, System)' => entries'[l] = {}
    BY <2>1 DEF Loadable, File
  <2> QED
    BY <2>1, <2>2, <2>4, <2>5, <2>6 DEF Loadable
<1>8. ASSUME NEW b \in Bookmark, Load(b)
     PROVE  Loadable'
  BY <1>8
     DEF Load, Loadable, Undisturbed, Exists, Home, Halfway, disk, Playing, Installing,
         Uninstalling
<1>9. ASSUME NEW b \in Bookmark, EraseBookmark(b)
     PROVE  Loadable'
  BY <1>9
     DEF EraseBookmark, Loadable, Undisturbed, Exists, Home, Halfway, disk, Playing, Installing,
         Uninstalling
<1>10. ASSUME NEW l \in Location, StartInstaller(l)
     PROVE  Loadable'
  BY <1>10
     DEF StartInstaller, Loadable, Undisturbed, Exists, Home, Halfway, disk, Playing,
         Installing, Uninstalling
<1>11. CASE GameData
  BY <1>11
     DEF GameData, Loadable, Undisturbed, Exists, Home, Halfway, disk, Playing, Installing,
         Uninstalling
<1>12. CASE RelocationSaveData
  <2>1. registry \in Location /\ target \in Location /\ registry # target
    BY <1>12 DEF RelocationSaveData, Folders, Installing
  <2>2. ~FolderExists(registry) => ~Exists(registry, System)
    BY DEF FolderExists, File
  <2>3. ~FolderExists(registry) /\ Undisturbed => entries[target] = {}
    BY <1>12, <2>1, <2>2 DEF RelocationSaveData, Complete, Home, Halfway, Loadable
  <2>4. CASE FolderExists(registry)
    BY <1>12, <2>4
       DEF RelocationSaveData, Loadable, Undisturbed, Exists, Home, Halfway, disk, Playing,
           Installing, Uninstalling
  <2>5. CASE ~FolderExists(registry)
    BY <1>12, <2>1, <2>3, <2>5
       DEF RelocationSaveData, Loadable, Undisturbed, Exists, Home, Halfway, disk, Playing,
           Installing, Uninstalling
  <2> QED
    BY <2>4, <2>5
<1>13. CASE Move
  <2>1. /\ registry \in Location /\ target \in Location /\ registry # target
        /\ \A f \in File : Exists(registry, f)' <=> Exists(registry, f)
        /\ entries'[registry] = entries[registry]
    BY <1>13, MoveWrites DEF Exists, Move
  <2>2. \A l \in Location : ~Exists(l, System)' => entries'[l] = {}
    BY <1>13, MoveWrites DEF Loadable, Exists, Move, File
  <2>3. entries[registry] \subseteq File
    BY <2>1 DEF TypeOK, DiskTypes, File
  <2> QED
    BY <1>13, <2>1, <2>2, <2>3
       DEF Move, Loadable, Undisturbed, Home, Halfway, Playing, Uninstalling
<1>14. CASE MoveFails
  BY <1>14
     DEF MoveFails, EndInstaller, Mishap, Loadable, Undisturbed, Exists, Home, Halfway, disk,
         Playing, Installing, Uninstalling
<1>15. CASE MoveEnds
  BY <1>15
     DEF MoveEnds, Loadable, Undisturbed, Exists, Home, Halfway, disk, Playing, Installing,
         Uninstalling
<1>16. CASE MoveIndex
  <2>1. registry \in Location /\ target \in Location /\ registry # target
    BY <1>16 DEF MoveIndex, Folders, Installing
  <2> SUFFICES ASSUME Undisturbed, Thumbnails \/ "save" \notin faults
               PROVE  \A b \in entries[target] : Exists(target, b)
    BY <1>16, <2>1
       DEF MoveIndex, Loadable, Undisturbed, Exists, Home, Halfway, disk, Playing, Installing,
           Uninstalling
  <2>2. /\ \A b \in entries[registry] : Exists(registry, b)
        /\ ~Exists(registry, System) => \A l \in Location : ~Exists(l, System)
    BY <1>16 DEF MoveIndex, Loadable, Complete, Home, Halfway
  <2>3. \A f \in File : Exists(registry, f) => Same(f)
    BY <1>16 DEF MoveIndex, Complete, Home, Halfway, Playing, MovedSoFar
  <2>4. CASE Exists(registry, System)
    <3>1. Exists(target, System) /\ entries[target] = entries[registry]
      BY <2>3, <2>4 DEF Same, Exists, File
    <3> QED
      BY <2>1, <2>2, <2>3, <3>1 DEF Same, Exists, File, TypeOK, DiskTypes
  <2>5. CASE ~Exists(registry, System)
    BY <2>1, <2>2, <2>5 DEF Loadable
  <2> QED
    BY <2>4, <2>5
<1>17. CASE Delete
  <2>1. /\ registry \in Location
        /\ \A l \in Location \ {registry}, f \in File : Exists(l, f)' <=> Exists(l, f)
        /\ \A l \in Location \ {registry} : entries'[l] = entries[l]
    BY <1>17, DeleteWrites DEF Exists
  <2>2. \A l \in Location : /\ Exists(l, System)' => Exists(l, System)
                          /\ ~Exists(l, System)' => entries'[l] = {}
    BY <1>17, DeleteWrites DEF Exists, File, Loadable
  <2>3. pc = "delete" => registry # target /\ target \in Location
    BY DEF Folders, Installing
  <2> QED
    BY <1>17, <2>1, <2>2, <2>3
       DEF Delete, Mishap, Loadable, Undisturbed, Home, Halfway, Playing, Uninstalling, File, TypeOK, DiskTypes
<1>18. CASE DeleteIndex
  BY <1>18
     DEF DeleteIndex, Loadable, Undisturbed, Exists, Home, Halfway, disk, Playing, Installing,
         Uninstalling
<1>19. CASE Regist
  <2>1. target \in Location
    BY <1>19 DEF Regist, Folders, Installing
  <2> QED
    BY <1>19, <2>1
       DEF Regist, EndInstaller, OnlySaved, Loadable, Undisturbed, Exists, Home, Halfway, disk,
           Playing, Installing, Uninstalling
<1>20. CASE KillInstaller
  BY <1>20
     DEF KillInstaller, EndInstaller, Mishap, Loadable, Undisturbed, Exists, Home, Halfway,
         disk, Playing, Installing, Uninstalling
<1>21. CASE StartUninstaller
  BY <1>21
     DEF StartUninstaller, OpenIndex, Loadable, Undisturbed, Exists, Home, Halfway, disk,
         Playing, Installing, Uninstalling
<1>22. CASE Unregist
  BY <1>22
     DEF Unregist, EndInstaller, Loadable, Undisturbed, Exists, Home, Halfway, disk, Playing,
         Installing, Uninstalling
<1>23. CASE UNCHANGED vars
  BY <1>23
     DEF Loadable, Undisturbed, Exists, Home, Halfway, disk, Playing, Installing, Uninstalling,
         vars, game
<1> QED
  BY <1>1, <1>2, <1>3, <1>4, <1>5, <1>6, <1>7, <1>8, <1>9, <1>10, <1>11,
     <1>12, <1>13, <1>14, <1>15, <1>16, <1>17, <1>18, <1>19, <1>20, <1>21, <1>22,
     <1>23
     DEF Next, Game, Saving, InstallerStep

----------------------------------------------------------------------------
(* The theorems.                                                                   *)

\* Before the first installation there are no files and nothing runs.
LEMMA InitInvariant == Init => IInv
<1> SUFFICES ASSUME Init
             PROVE  IInv
  OBVIOUS
<1>1. TypeOK /\ InjectiveIndexes /\ Folders
  BY InitTypes
<1>2. \A l \in Location, f \in File : file[l][f] = 0 /\ ~Contains(index[l], f)
  BY EmptyIndex DEF Init
<1>3. OnlySaved /\ Loadable
  BY <1>2 DEF Init, OnlySaved, Current, Loadable, Undisturbed, Exists, File
<1>4. MovedSoFar /\ Complete /\ Left /\ HalfWritten
  BY DEF Init, MovedSoFar, Complete, Undisturbed, Left, HalfWritten
<1>5. Real
  BY <1>2 DEF Init, Real, Playing
<1> QED
  BY <1>1, <1>3, <1>4, <1>5 DEF IInv

\* The inductive invariant holds in every state: it relates what is on the disk, what the
\* programs remember and how far they are.
THEOREM Invariance == Spec => []IInv
<1>1. IInv /\ [Next]_vars => IInv'
  BY TypesStep, HalfWrittenStep, OnlySavedStep, MovedStep, CompleteStep, RealStep, LoadableStep, LeftStep
     DEF IInv
<1> QED
  BY InitInvariant, <1>1, PTL DEF Spec

\* The registry, the index files, what the game and the plugin remember and the counters
\* stay within their types, and GLocation never has a name twice in its index.
THEOREM TypeCorrect == Spec => []TypeOK
<1>1. IInv => TypeOK
  BY DEF IInv
<1> QED
  BY Invariance, <1>1, PTL

\* For every number of folders, bookmarks, runs and mishaps, moving and saving lose no saved
\* game: what the installer deletes it has copied, and the copy is the last save.  Only the
\* save of a bookmark itself, cut short behind its thumbnail, spoils what it replaces.
THEOREM SavesAreKept == Spec => []NoSaveLost
<1>1. IInv => NoSaveLost
  BY DEF IInv, Complete, Current, Undisturbed, Home, NoSaveLost
<1> QED
  BY Invariance, <1>1, PTL

\* An entry that the system file enables has its file when the game starts the next time, and
\* the file loads unless its own last save was cut short (or a program died at a bad moment).
THEOREM EnabledSavesLoad == Spec => []EntriesLoad
<1>1. ASSUME IInv, pc = "off", registry # NoLocation, faults \cap {"game", "installer"} = {},
             Thumbnails \/ "save" \notin faults, NEW b \in entries[registry]
      PROVE  Exists(registry, b) /\ (b \notin spoilt => Loads(registry, b))
  <2>1. Undisturbed /\ Home = registry
    BY <1>1 DEF Undisturbed, Home, Halfway, Uninstalling
  <2>2. Exists(registry, b)
    BY <1>1, <2>1 DEF IInv, Loadable
  <2>3. b \in Bookmark /\ saved[b] \in Nat
    BY <1>1 DEF IInv, TypeOK, DiskTypes, ProgressTypes
  <2>4. file[registry][b] = Current(b)
    BY <1>1, <2>1, <2>3 DEF IInv, Complete
  <2> QED
    BY <2>2, <2>3, <2>4 DEF Current, Exists, Loads
<1>2. IInv => EntriesLoad
  BY <1>1 DEF EntriesLoad
<1> QED
  BY Invariance, <1>2, PTL

\* An installer that gave up a move can move what it left: every line of the index of the
\* registered folder is the name of a file in it.
THEOREM MovesCanBeRetried == Spec => []MoveCanBeRetried
<1>1. ASSUME IInv, pc = "off", registry \in managed, faults \cap {"save", "installer"} = {},
             NEW i \in DOMAIN index[registry]
      PROVE  Exists(registry, index[registry][i])
  <2>1. registry \in Location /\ index[registry] \in Seq(File)
    BY <1>1 DEF IInv, TypeOK, DiskTypes
  <2>2. index[registry][i] \in File /\ i \in 1..Len(index[registry])
    BY <1>1, <2>1, ElementOfSeq, LenProperties
  <2>3. Contains(index[registry], index[registry][i])
    BY <2>2 DEF Contains
  <2> QED
    BY <1>1, <2>1, <2>2, <2>3 DEF IInv, Real, Emptied
<1>2. IInv => MoveCanBeRetried
  BY <1>1 DEF MoveCanBeRetried
<1> QED
  BY Invariance, <1>2, PTL

\* An uninstaller to which nothing happened has deleted every saved game of the registered
\* folder, because the index had them all.
THEOREM UninstallerLeavesNothing == Spec => []NothingLeft
<1>1. IInv => NothingLeft
  BY DEF IInv, Left, NothingLeft
<1> QED
  BY Invariance, <1>1, PTL
================================================================================
